---- MODULE Spec2Model ----
(***************************************************************************)
(* A model of the caching and data-mapping core of the insect search API:  *)
(*   services/cache_service.py        CacheService (in-memory TTL cache)   *)
(*   services/inaturalist_service.py  INaturalistService (upstream client) *)
(*   services/service_provider.py     get_inaturalist_service              *)
(*   routers/cache.py                 cache administration endpoints       *)
(*   services/insect_service.py       InsectService: the field mapper and  *)
(*                                    the observation and photo operations *)
(*   routers/insects.py, observations.py, photos.py   the status of the    *)
(*                                    responses                            *)
(*                                                                         *)
(* The specifications share the operators and one initial state:           *)
(*   CacheSpec  an arbitrary caller drives get/set/remove/clear directly;  *)
(*   Spec       concurrent requests go through the client's three read     *)
(*              operations while clear_cache runs and the clock advances;  *)
(*   LiveSpec   the requests of Spec under the fairness the timeout gives; *)
(*   AdminSpec  the two administration endpoints next to the requests;     *)
(*   LoopSpec   the provider and the cache methods statement by statement  *)
(*              under the scheduling of the event loop;                    *)
(*   KeySpec    the cache keys two calls build;                            *)
(*   MapSpec    the field mapper applied to external records and rows;     *)
(*   RepoSpec   the observation operations of InsectService against the    *)
(*              two tables, one datastore call per step;                   *)
(*   PhotoSpec  those operations together with the photo endpoints;        *)
(*   ClearSpec  the requests of Spec with a clear that records the         *)
(*              upstream calls in flight.                                  *)
(***************************************************************************)
EXTENDS Integers, Sequences, FiniteSets, TLC

VARIABLES
    cache,          \* CacheService.cache of the one service instance
    now,            \* what time.time() returns
    last,           \* CacheSpec: the last cache call, its result and the dict before it
    pc,             \* per request: where the read operation stands
    op,             \* per request: the read operation called
    cache_key,      \* per request: local cache_key
    result,         \* per request: local result (the upstream body)
    ret,            \* per request: the value returned to the caller
    calls,          \* per request: upstream calls issued so far
    stores,         \* per request: cache.set calls made so far
    intact,         \* per request: its stored entry has not been touched since
    cleared,        \* per request: a clear emptied the dict during its upstream call
    running,        \* LoopSpec: the request the event loop is running (0: none)
    inaturalist_service, \* LoopSpec: the global _inaturalist_service (0: None)
    constructed,    \* LoopSpec: INaturalistService() constructions so far
    caches,         \* LoopSpec: the cache dict of each constructed instance
    line,           \* LoopSpec: per request, the statement it stands at
    service,        \* LoopSpec: per request, local service / self (0: unset)
    call,           \* LoopSpec: per request, the cache method being executed
    snap,           \* LoopSpec: per request, the dict when the method was entered
    outcome,        \* LoopSpec: per request, what the method returned or raised
    built,          \* KeySpec: per call, the parameters given and the key built
    given,          \* MapSpec: the dict handed to the field mapper
    stage,          \* MapSpec: what has been done with it so far
    returned,       \* MapSpec: the dict the mapper returned
    observaciones,  \* RepoSpec: the rows of the table observaciones
    observacion_fotos, \* RepoSpec: the rows of the table observacion_fotos
    serial,         \* RepoSpec: identifiers the datastore has generated
    task,           \* RepoSpec: the repository operation in progress
    issued,         \* RepoSpec: the datastore calls it has issued, in order
    before,         \* RepoSpec: the two tables when it began
    reply           \* RepoSpec: what the operation returned

reqvars == <<pc, op, cache_key, result, ret, calls, stores, intact, cleared>>
loopvars == <<running, inaturalist_service, constructed, caches,
              line, service, call, snap, outcome>>
\* the variables of the specifications that stand apart from the cache model
keyvars == <<built>>
mapvars == <<given, stage, returned>>
repovars == <<observaciones, observacion_fotos, serial, task, issued,
              before, reply>>
purevars == <<keyvars, mapvars, repovars>>
others == <<loopvars, purevars>>
vars == <<cache, now, last, reqvars, others>>

(***************************************************************************)
(* Bounds of the model                                                     *)
(***************************************************************************)
\* time.time() is read as a whole number of seconds in 0..MaxTime
MaxTime == 2
\* the ttl the cache is constructed with, scaled down from the default
\* (cache_service.py:8 takes it as a constructor parameter)
ttl_seconds == 1

\* Python's None: what get returns for an absent or expired key
None == "None"
\* an upstream JSON body that Python treats as false (an empty object)
EMPTY == "{}"
\* JSON bodies the upstream may answer with
Values == {"R1", "R2", EMPTY}

(***************************************************************************)
(* CacheService: self.cache is a dict key -> (value, timestamp)            *)
(***************************************************************************)
EmptyCache == [k \in {} |-> None]

Entry(value, timestamp) == [value |-> value, timestamp |-> timestamp]

\* del self.cache[key]
Del(c, key) == [k \in (DOMAIN c) \ {key} |-> c[k]]

\* get without the eviction of the expired entry
get_no_evict(c, t, key) ==
    IF key \notin DOMAIN c THEN [ret |-> None, cache |-> c]
    ELSE IF t - c[key].timestamp > ttl_seconds
         THEN [ret |-> None, cache |-> c]
         ELSE [ret |-> c[key].value, cache |-> c]

\* get that treats an entry aged exactly ttl as expired
get_strict(c, t, key) ==
    IF key \notin DOMAIN c THEN [ret |-> None, cache |-> c]
    ELSE IF t - c[key].timestamp >= ttl_seconds
         THEN [ret |-> None, cache |-> Del(c, key)]
         ELSE [ret |-> c[key].value, cache |-> c]

\* get that stamps the entry it returns with the time of the read
get_sliding(c, t, key) ==
    IF key \notin DOMAIN c THEN [ret |-> None, cache |-> c]
    ELSE IF t - c[key].timestamp > ttl_seconds
         THEN [ret |-> None, cache |-> Del(c, key)]
         ELSE [ret |-> c[key].value,
               cache |-> [c EXCEPT ![key] = Entry(c[key].value, t)]]

\* CacheService.get at time t: the value returned and the dict afterwards
get(c, t, key) ==
    IF key \notin DOMAIN c THEN [ret |-> None, cache |-> c]
    ELSE IF t - c[key].timestamp > ttl_seconds
         THEN [ret |-> None, cache |-> Del(c, key)]
         ELSE [ret |-> c[key].value, cache |-> c]

\* set that keeps an entry that is already there (dict.setdefault)
set_keep_existing(c, t, key, value) ==
    IF key \in DOMAIN c THEN c
    ELSE [k \in (DOMAIN c) \cup {key} |->
             IF k = key THEN Entry(value, t) ELSE c[k]]

\* set that replaces the value and keeps the first timestamp
set_keep_timestamp(c, t, key, value) ==
    [k \in (DOMAIN c) \cup {key} |->
        IF k = key
        THEN Entry(value, IF key \in DOMAIN c THEN c[key].timestamp ELSE t)
        ELSE c[k]]

\* set over a dict bounded to two entries: a third key evicts the oldest
set_with_capacity(c, t, key, value) ==
    LET full == key \notin DOMAIN c /\ Cardinality(DOMAIN c) >= 2
        old  == CHOOSE k \in DOMAIN c :
                    \A j \in DOMAIN c : c[k].timestamp <= c[j].timestamp
        kept == IF full THEN Del(c, old) ELSE c
    IN [k \in (DOMAIN kept) \cup {key} |->
           IF k = key THEN Entry(value, t) ELSE kept[k]]

\* set that stamps the entry with a time that is still to come
set_stamped_ahead(c, t, key, value) ==
    [k \in (DOMAIN c) \cup {key} |->
        IF k = key THEN Entry(value, t + 1) ELSE c[k]]

\* CacheService.set at time t
set(c, t, key, value) ==
    [k \in (DOMAIN c) \cup {key} |->
        IF k = key THEN Entry(value, t) ELSE c[k]]

\* CacheService.clear
clear(c) == EmptyCache

\* CacheService.remove
remove(c, key) == IF key \in DOMAIN c THEN Del(c, key) ELSE c

\* CacheService.get_size
get_size(c) == Cardinality(DOMAIN c)

\* a stats report that counts only the entries the client would serve
get_cache_stats_truthy(c) ==
    [total_items |-> Cardinality({k \in DOMAIN c : c[k].value # EMPTY}),
     ttl_seconds |-> ttl_seconds]

\* routers/cache.py get_cache_stats: the body of the stats response
get_cache_stats(c) ==
    [total_items |-> get_size(c), ttl_seconds |-> ttl_seconds]

(***************************************************************************)
(* Cache keys of INaturalistService                                        *)
(***************************************************************************)
\* A coordinate is a whole number of 1e-5 degrees. round(x, 4) keeps the
\* sign (round(-0.00001, 4) is -0.0) and gives a magnitude in 1e-4 degrees.
\* A last digit of 5 is decided in Python by the binary value of the float;
\* the coordinates drawn below have no such digit.
round4(x) ==
    LET mag == IF x < 0 THEN -x ELSE x
        q   == mag \div 10
        rem == mag % 10
    IN [neg |-> x < 0,
        mag |-> IF rem > 5 \/ (rem = 5 /\ q % 2 = 1) THEN q + 1 ELSE q]

\* str() of a float with at most four decimals: trailing zeros are dropped
\* and one decimal digit is always kept (12.0, 12.1345, -0.0)
FormatFloat(f) ==
    LET fr == f.mag % 10000
        d1 == ToString(fr \div 1000)
        d2 == ToString((fr \div 100) % 10)
        d3 == ToString((fr \div 10) % 10)
        d4 == ToString(fr % 10)
        frac == IF fr % 10 # 0 THEN d1 \o d2 \o d3 \o d4
                ELSE IF fr % 100 # 0 THEN d1 \o d2 \o d3
                ELSE IF fr % 1000 # 0 THEN d1 \o d2
                ELSE d1
    IN (IF f.neg THEN "-" ELSE "") \o ToString(f.mag \div 10000)
          \o "." \o frac

\* f"search_observations:{query}:{locale}:{per_page}:{page}"
search_key(query, locale, per_page, page) ==
    "search_observations:" \o query \o ":" \o locale \o ":"
        \o ToString(per_page) \o ":" \o ToString(page)

\* f"species_info:{taxon_id}:{locale}"
species_key(taxon_id, locale) ==
    "species_info:" \o ToString(taxon_id) \o ":" \o locale

\* f"observations_location:{rounded_lat}:{rounded_lng}:{locale}:{radius}:{per_page}:{page}"
location_key(lat, lng, locale, radius, per_page, page) ==
    "observations_location:" \o FormatFloat(round4(lat)) \o ":"
        \o FormatFloat(round4(lng)) \o ":" \o locale \o ":"
        \o ToString(radius) \o ":" \o ToString(per_page) \o ":"
        \o ToString(page)

(***************************************************************************)
(* Inputs                                                                  *)
(***************************************************************************)
\* the requests that can be in progress at the same time
Reqs == {1, 2}
Queries == {"monarch"}
Locales == {"es"}
TaxonIds == {47219}
\* 12.13449 and 12.13451 degrees, in 1e-5 degrees
Lats == {1213449, 1213451}
Lngs == {-7950000}

\* the keys the three read operations can build from these inputs
Keys ==
    {search_key(q, l, 10, 1) : q \in Queries, l \in Locales}
    \cup {species_key(i, l) : i \in TaxonIds, l \in Locales}
    \cup {location_key(la, lo, l, 50, 10, 1) :
              la \in Lats, lo \in Lngs, l \in Locales}

(***************************************************************************)
(* Initial state: the service has just been constructed                    *)
(***************************************************************************)
NoCall == [op |-> "init", key |-> None, value |-> None, ret |-> None,
           at |-> 0, pre |-> EmptyCache]

Init ==
    /\ cache = EmptyCache
    /\ now = 0
    /\ last = NoCall
    /\ pc = [r \in Reqs |-> "idle"]
    /\ op = [r \in Reqs |-> None]
    /\ cache_key = [r \in Reqs |-> None]
    /\ result = [r \in Reqs |-> None]
    /\ ret = [r \in Reqs |-> None]
    /\ calls = [r \in Reqs |-> 0]
    /\ stores = [r \in Reqs |-> 0]
    /\ intact = [r \in Reqs |-> FALSE]
    /\ cleared = [r \in Reqs |-> FALSE]
    /\ running = 0
    /\ inaturalist_service = 0
    /\ constructed = 0
    /\ caches = <<>>
    /\ line = [r \in Reqs |-> "idle"]
    /\ service = [r \in Reqs |-> 0]
    /\ call = [r \in Reqs |-> [op |-> "none", key |-> None, value |-> None]]
    /\ snap = [r \in Reqs |-> EmptyCache]
    /\ outcome = [r \in Reqs |-> None]
    /\ built = [i \in {1, 2} |-> [op |-> "none"]]
    /\ given = <<>>
    /\ stage = "empty"
    /\ returned = <<>>
    /\ observaciones = <<>>
    /\ observacion_fotos = <<>>
    /\ serial = 0
    /\ task = [name |-> "none", at |-> "idle"]
    /\ issued = <<>>
    /\ before = [observaciones |-> <<>>, observacion_fotos |-> <<>>]
    /\ reply = [success |-> None]

\* the clock advances; nothing sweeps the cache when it does
Tick ==
    /\ now < MaxTime
    /\ now' = now + 1
    /\ UNCHANGED <<cache, last, reqvars>>
    /\ UNCHANGED others

(***************************************************************************)
(* CacheSpec: the cache driven directly through its methods                *)
(***************************************************************************)
CacheGet(key) ==
    LET g == get(cache, now, key) IN
    /\ cache' = g.cache
    /\ last' = [op |-> "get", key |-> key, value |-> None, ret |-> g.ret,
                at |-> now, pre |-> cache]
    /\ UNCHANGED <<now, reqvars>>
    /\ UNCHANGED others

CacheSet(key, value) ==
    /\ cache' = set(cache, now, key, value)
    /\ last' = [op |-> "set", key |-> key, value |-> value, ret |-> None,
                at |-> now, pre |-> cache]
    /\ UNCHANGED <<now, reqvars>>
    /\ UNCHANGED others

CacheRemove(key) ==
    /\ cache' = remove(cache, key)
    /\ last' = [op |-> "remove", key |-> key, value |-> None, ret |-> None,
                at |-> now, pre |-> cache]
    /\ UNCHANGED <<now, reqvars>>
    /\ UNCHANGED others

CacheClear ==
    /\ cache' = clear(cache)
    /\ last' = [op |-> "clear", key |-> None, value |-> None, ret |-> None,
                at |-> now, pre |-> cache]
    /\ UNCHANGED <<now, reqvars>>
    /\ UNCHANGED others

CacheNext ==
    \/ \E key \in Keys : CacheGet(key)
    \/ \E key \in Keys, value \in Values : CacheSet(key, value)
    \/ \E key \in Keys : CacheRemove(key)
    \/ CacheClear
    \/ Tick

CacheSpec == Init /\ [][CacheNext]_vars

(***************************************************************************)
(* Spec: requests through INaturalistService and the cache endpoints       *)
(*                                                                         *)
(* A read operation runs without suspension from its entry to the first    *)
(* await (key, cache.get, the test of cached_result), again from the       *)
(* arrival of the response to cache.set, and returns once the              *)
(* "async with" block has closed the HTTP client.                          *)
(***************************************************************************)
\* "if cached_result:" is Python's truth test, not a test for None
Truthy(v) == v # None /\ v # EMPTY

\* which requests still have their stored entry untouched once the dict
\* has become c2; setter is the request that has just stored (0: none)
IntactAfter(c2, setter) ==
    [q \in Reqs |->
        IF q = setter THEN TRUE
        ELSE /\ intact[q]
             /\ cache_key[q] \in DOMAIN c2
             /\ c2[cache_key[q]] = cache[cache_key[q]]]

\* the common head of the three read operations, from the key on:
\* cached_result = self.cache.get(cache_key); if cached_result: return it;
\* otherwise open the HTTP client and issue the GET
Lookup(r, name, key) ==
    LET g == get(cache, now, key)
        cached_result == g.ret
    IN
    /\ pc[r] = "idle"
    /\ op' = [op EXCEPT ![r] = name]
    /\ cache_key' = [cache_key EXCEPT ![r] = key]
    /\ cache' = g.cache
    /\ intact' = IntactAfter(g.cache, 0)
    /\ IF Truthy(cached_result)
       THEN /\ pc' = [pc EXCEPT ![r] = "done"]
            /\ ret' = [ret EXCEPT ![r] = cached_result]
            /\ UNCHANGED calls
       ELSE /\ pc' = [pc EXCEPT ![r] = "awaiting"]
            /\ calls' = [calls EXCEPT ![r] = @ + 1]
            /\ UNCHANGED ret
    /\ UNCHANGED <<now, last, result, stores, cleared>>
    /\ UNCHANGED others

search_observations(r, query, locale, per_page, page) ==
    Lookup(r, "search_observations", search_key(query, locale, per_page, page))

get_species_info(r, taxon_id, locale) ==
    Lookup(r, "get_species_info", species_key(taxon_id, locale))

get_observations_by_location(r, lat, lng, locale, radius, per_page, page) ==
    Lookup(r, "get_observations_by_location",
           location_key(lat, lng, locale, radius, per_page, page))

\* a response that is dropped instead of stored
Respond_no_store(r, body) ==
    /\ pc[r] = "awaiting"
    /\ result' = [result EXCEPT ![r] = body]
    /\ pc' = [pc EXCEPT ![r] = "closing"]
    /\ UNCHANGED <<cache, now, last, op, cache_key, ret,
                   calls, stores, intact, cleared>>
    /\ UNCHANGED others

\* a response that is dropped when the dict was cleared during the call
Respond_unless_cleared(r, body) ==
    /\ pc[r] = "awaiting"
    /\ result' = [result EXCEPT ![r] = body]
    /\ cache' = IF cleared[r] THEN cache
              ELSE set(cache, now, cache_key[r], body)
    /\ stores' = [stores EXCEPT ![r] = @ + 1]
    /\ intact' = IntactAfter(IF cleared[r] THEN cache
                             ELSE set(cache, now, cache_key[r], body), r)
    /\ pc' = [pc EXCEPT ![r] = "closing"]
    /\ UNCHANGED <<now, last, op, cache_key, ret, calls, cleared>>
    /\ UNCHANGED others

\* the upstream answers 2xx with a JSON body: raise_for_status passes,
\* result = response.json(), self.cache.set(cache_key, result)
Respond(r, body) ==
    /\ pc[r] = "awaiting"
    /\ result' = [result EXCEPT ![r] = body]
    /\ cache' = set(cache, now, cache_key[r], body)
    /\ stores' = [stores EXCEPT ![r] = @ + 1]
    /\ intact' = IntactAfter(set(cache, now, cache_key[r], body), r)
    /\ pc' = [pc EXCEPT ![r] = "closing"]
    /\ UNCHANGED <<now, last, op, cache_key, ret, calls, cleared>>
    /\ UNCHANGED others

\* a failure that is stored in the cache in place of a result
Fail_cached(r) ==
    /\ pc[r] = "awaiting"
    /\ cache' = set(cache, now, cache_key[r], EMPTY)
    /\ intact' = IntactAfter(set(cache, now, cache_key[r], EMPTY), 0)
    /\ pc' = [pc EXCEPT ![r] = "failed"]
    /\ cleared' = [cleared EXCEPT ![r] = FALSE]
    /\ UNCHANGED <<now, last, op, cache_key, result, ret,
                   calls, stores>>
    /\ UNCHANGED others

\* an upstream call without a timeout: an unanswered GET never raises
Fail_no_timeout(r) ==
    /\ pc[r] = "awaiting"
    /\ FALSE
    /\ UNCHANGED vars

\* the GET raises (network error, timeout), raise_for_status raises on a
\* non-2xx status, or response.json() raises: the exception leaves the
\* operation before cache.set is reached
Fail(r) ==
    /\ pc[r] = "awaiting"
    /\ pc' = [pc EXCEPT ![r] = "failed"]
    /\ cleared' = [cleared EXCEPT ![r] = FALSE]
    /\ UNCHANGED <<cache, now, last, op, cache_key, result,
                   ret, calls, stores, intact>>
    /\ UNCHANGED others

\* the request's task is cancelled while the GET is in flight
Cancel(r) ==
    /\ pc[r] = "awaiting"
    /\ pc' = [pc EXCEPT ![r] = "cancelled"]
    /\ cleared' = [cleared EXCEPT ![r] = FALSE]
    /\ UNCHANGED <<cache, now, last, op, cache_key, result,
                   ret, calls, stores, intact>>
    /\ UNCHANGED others

\* "return result" once the HTTP client is closed
Return(r) ==
    /\ pc[r] = "closing"
    /\ pc' = [pc EXCEPT ![r] = "done"]
    /\ ret' = [ret EXCEPT ![r] = result[r]]
    /\ cleared' = [cleared EXCEPT ![r] = FALSE]
    /\ UNCHANGED <<cache, now, last, op, cache_key, result,
                   calls, stores, intact>>
    /\ UNCHANGED others

Ended == {"done", "failed", "cancelled"}

\* the request is over; its slot serves the next request
Finish(r) ==
    /\ pc[r] \in Ended
    /\ pc' = [pc EXCEPT ![r] = "idle"]
    /\ op' = [op EXCEPT ![r] = None]
    /\ cache_key' = [cache_key EXCEPT ![r] = None]
    /\ result' = [result EXCEPT ![r] = None]
    /\ ret' = [ret EXCEPT ![r] = None]
    /\ calls' = [calls EXCEPT ![r] = 0]
    /\ stores' = [stores EXCEPT ![r] = 0]
    /\ intact' = [intact EXCEPT ![r] = FALSE]
    /\ UNCHANGED <<cache, now, last, cleared>>
    /\ UNCHANGED others

\* routers/cache.py clear_cache
clear_cache ==
    /\ cache # EmptyCache
    /\ cache' = clear(cache)
    /\ intact' = IntactAfter(clear(cache), 0)
    /\ UNCHANGED <<now, last, pc, op, cache_key, result, ret,
                   calls, stores, cleared>>
    /\ UNCHANGED others

Next ==
    \/ \E r \in Reqs, q \in Queries, l \in Locales :
           search_observations(r, q, l, 10, 1)
    \/ \E r \in Reqs, i \in TaxonIds, l \in Locales :
           get_species_info(r, i, l)
    \/ \E r \in Reqs, la \in Lats, lo \in Lngs, l \in Locales :
           get_observations_by_location(r, la, lo, l, 50, 10, 1)
    \/ \E r \in Reqs, body \in Values : Respond(r, body)
    \/ \E r \in Reqs : Fail(r)
    \/ \E r \in Reqs : Cancel(r)
    \/ \E r \in Reqs : Return(r)
    \/ \E r \in Reqs : Finish(r)
    \/ clear_cache
    \/ Tick

Spec == Init /\ [][Next]_vars

\* LiveSpec: the requests of Spec with the progress the code provides.
\* An upstream call that gets no answer is ended by the timeout of the
\* HTTP client (httpx.AsyncClient() is constructed with the library's
\* default timeout), which raises out of client.get; and once the response
\* is stored, closing the client and returning need nothing from outside.
\* Nothing obliges the upstream to answer, a client to cancel or a new
\* request to arrive.  The clock stands still: the timeout is the
\* fairness of Fail, and expiry has no part in whether a request ends.
LiveNext ==
    \/ \E r \in Reqs, q \in Queries, l \in Locales :
           search_observations(r, q, l, 10, 1)
    \/ \E r \in Reqs, i \in TaxonIds, l \in Locales :
           get_species_info(r, i, l)
    \/ \E r \in Reqs, la \in Lats, lo \in Lngs, l \in Locales :
           get_observations_by_location(r, la, lo, l, 50, 10, 1)
    \/ \E r \in Reqs, body \in Values : Respond(r, body)
    \/ \E r \in Reqs : Fail(r)
    \/ \E r \in Reqs : Cancel(r)
    \/ \E r \in Reqs : Return(r)
    \/ \E r \in Reqs : Finish(r)
    \/ clear_cache

LiveSpec ==
    /\ Init
    /\ [][LiveNext]_vars
    /\ \A r \in Reqs : WF_vars(Fail(r)) /\ WF_vars(Return(r))

(***************************************************************************)
(* AdminSpec: the administration endpoints next to the client              *)
(*                                                                         *)
(* Both endpoints of routers/cache.py obtain the service through           *)
(* get_inaturalist_service() and work on service.cache, the dict the       *)
(* read operations use.  The clock stands still here; expiry plays no      *)
(* part in what the endpoints do.                                          *)
(***************************************************************************)
\* routers/cache.py get_cache_stats: the response is kept in last.ret
cache_stats ==
    /\ last' = [op |-> "stats", key |-> None, value |-> None,
                ret |-> get_cache_stats(cache), at |-> now,
                pre |-> EmptyCache]
    /\ UNCHANGED <<cache, now, reqvars>>
    /\ UNCHANGED others

AdminNext ==
    \/ \E r \in Reqs, q \in Queries, l \in Locales :
           search_observations(r, q, l, 10, 1)
    \/ \E r \in Reqs, i \in TaxonIds, l \in Locales :
           get_species_info(r, i, l)
    \/ \E r \in Reqs, la \in Lats, lo \in Lngs, l \in Locales :
           get_observations_by_location(r, la, lo, l, 50, 10, 1)
    \/ \E r \in Reqs, body \in Values : Respond(r, body)
    \/ \E r \in Reqs : Fail(r)
    \/ \E r \in Reqs : Return(r)
    \/ \E r \in Reqs : Finish(r)
    \/ clear_cache
    \/ cache_stats

AdminSpec == Init /\ [][AdminNext]_vars

(***************************************************************************)
(* LoopSpec: the handlers statement by statement on the event loop         *)
(*                                                                         *)
(* Every handler that reaches the cache is an "async def" served by the    *)
(* one event loop uvicorn.run starts; get_inaturalist_service and the      *)
(* methods of CacheService are plain functions without an await.  A        *)
(* request therefore runs from where it is entered or resumed to its next  *)
(* await while every other request stands still.  The statements of the    *)
(* provider and of the cache methods are separate steps here, so that the  *)
(* atomicity of a method is a consequence of that scheduling and not of    *)
(* the way the model is cut.  The clock is not bound to the loop.          *)
(***************************************************************************)
LoopKeys == {search_key(q, l, 10, 1) : q \in Queries, l \in Locales}
LoopValues == {"R1", "R2"}
Methods == {"get", "set", "remove", "clear"}
NoMethod == [op |-> "none", key |-> None, value |-> None]
KeyError == "KeyError"

\* threads instead of coroutines: any request may take the next step
CanRun_preemptive(r) == TRUE

\* the event loop runs one coroutine at a time, up to its next await
CanRun(r) == running \in {0, r}

\* a handler is entered: its first statement is get_inaturalist_service()
Enter(r) ==
    /\ line[r] = "idle"
    /\ CanRun(r)
    /\ running' = r
    /\ line' = [line EXCEPT ![r] = "test"]
    /\ UNCHANGED <<inaturalist_service, constructed, caches, service,
                   call, snap, outcome>>
    /\ UNCHANGED <<cache, now, last, reqvars, purevars>>

\* a provider that constructs the service on every call
TestNone_always(r) ==
    /\ line[r] = "test"
    /\ CanRun(r)
    /\ running' = r
    /\ line' = [line EXCEPT ![r] = "construct"]
    /\ UNCHANGED <<inaturalist_service, constructed, caches, service,
                   call, snap, outcome>>
    /\ UNCHANGED <<cache, now, last, reqvars, purevars>>

\* if _inaturalist_service is None:
TestNone(r) ==
    /\ line[r] = "test"
    /\ CanRun(r)
    /\ running' = r
    /\ line' = [line EXCEPT ![r] =
                   IF inaturalist_service = 0 THEN "construct" ELSE "return"]
    /\ UNCHANGED <<inaturalist_service, constructed, caches, service,
                   call, snap, outcome>>
    /\ UNCHANGED <<cache, now, last, reqvars, purevars>>

\* _inaturalist_service = INaturalistService(), whose __init__ builds
\* the instance's own CacheService with an empty dict
Construct(r) ==
    /\ line[r] = "construct"
    /\ CanRun(r)
    /\ running' = r
    /\ constructed' = constructed + 1
    /\ caches' = Append(caches, EmptyCache)
    /\ inaturalist_service' = constructed + 1
    /\ line' = [line EXCEPT ![r] = "return"]
    /\ UNCHANGED <<service, call, snap, outcome>>
    /\ UNCHANGED <<cache, now, last, reqvars, purevars>>

\* return _inaturalist_service; service = get_inaturalist_service()
ReturnService(r) ==
    /\ line[r] = "return"
    /\ CanRun(r)
    /\ running' = r
    /\ service' = [service EXCEPT ![r] = inaturalist_service]
    /\ line' = [line EXCEPT ![r] = "call"]
    /\ UNCHANGED <<inaturalist_service, constructed, caches,
                   call, snap, outcome>>
    /\ UNCHANGED <<cache, now, last, reqvars, purevars>>

\* the request calls a method of service.cache
CallMethod(r, m, key, value) ==
    /\ line[r] = "call"
    /\ CanRun(r)
    /\ running' = r
    /\ call' = [call EXCEPT ![r] =
                   [op |-> m,
                    key |-> IF m = "clear" THEN None ELSE key,
                    value |-> IF m = "set" THEN value ELSE None]]
    /\ snap' = [snap EXCEPT ![r] = caches[service[r]]]
    /\ outcome' = [outcome EXCEPT ![r] = None]
    /\ line' = [line EXCEPT ![r] = m]
    /\ UNCHANGED <<inaturalist_service, constructed, caches, service>>
    /\ UNCHANGED <<cache, now, last, reqvars, purevars>>

\* the method has returned or raised; the request goes on to its next
\* await, where the loop is free for the others
Suspend(r, out) ==
    /\ running' = 0
    /\ outcome' = [outcome EXCEPT ![r] = out]
    /\ line' = [line EXCEPT ![r] = "await"]
    /\ UNCHANGED <<inaturalist_service, constructed, service, call, snap>>
    /\ UNCHANGED <<cache, now, last, reqvars, purevars>>

\* the request stays inside the method
Goto(r, l) ==
    /\ running' = r
    /\ line' = [line EXCEPT ![r] = l]
    /\ UNCHANGED <<inaturalist_service, constructed, service, call, snap,
                   outcome>>
    /\ UNCHANGED <<cache, now, last, reqvars, purevars>>

\* the dict of the instance request r works on
Dict(r) == caches[service[r]]

\* CacheService.get, line 22: if key not in self.cache: return None
GetTest(r) ==
    /\ line[r] = "get"
    /\ CanRun(r)
    /\ IF call[r].key \notin DOMAIN Dict(r)
       THEN Suspend(r, None)
       ELSE Goto(r, "get_read")
    /\ UNCHANGED caches

\* CacheService.get, lines 25-28 and 34: value, timestamp = self.cache[key];
\* current_time = time.time(); the expiry test; return value
GetRead(r) ==
    /\ line[r] = "get_read"
    /\ CanRun(r)
    /\ IF call[r].key \notin DOMAIN Dict(r)
       THEN Suspend(r, KeyError)
       ELSE IF now - Dict(r)[call[r].key].timestamp > ttl_seconds
            THEN Goto(r, "get_del")
            ELSE Suspend(r, Dict(r)[call[r].key].value)
    /\ UNCHANGED caches

\* CacheService.get, lines 30-31: del self.cache[key]; return None
GetDel(r) ==
    /\ line[r] = "get_del"
    /\ CanRun(r)
    /\ IF call[r].key \notin DOMAIN Dict(r)
       THEN Suspend(r, KeyError) /\ UNCHANGED caches
       ELSE /\ Suspend(r, None)
            /\ caches' = [caches EXCEPT ![service[r]] = Del(@, call[r].key)]

\* CacheService.set, line 44
SetStore(r) ==
    /\ line[r] = "set"
    /\ CanRun(r)
    /\ Suspend(r, None)
    /\ caches' = [caches EXCEPT ![service[r]] =
                     set(@, now, call[r].key, call[r].value)]

\* CacheService.remove, line 58: if key in self.cache:
RemoveTest(r) ==
    /\ line[r] = "remove"
    /\ CanRun(r)
    /\ IF call[r].key \in DOMAIN Dict(r)
       THEN Goto(r, "remove_del")
       ELSE Suspend(r, None)
    /\ UNCHANGED caches

\* CacheService.remove, line 59: del self.cache[key]
RemoveDel(r) ==
    /\ line[r] = "remove_del"
    /\ CanRun(r)
    /\ IF call[r].key \notin DOMAIN Dict(r)
       THEN Suspend(r, KeyError) /\ UNCHANGED caches
       ELSE /\ Suspend(r, None)
            /\ caches' = [caches EXCEPT ![service[r]] = Del(@, call[r].key)]

\* CacheService.clear, line 50
ClearAll(r) ==
    /\ line[r] = "clear"
    /\ CanRun(r)
    /\ Suspend(r, None)
    /\ caches' = [caches EXCEPT ![service[r]] = clear(@)]

\* the awaited call is over and the coroutine is resumed; it goes on with
\* the instance it holds (self) and calls the cache again
Resume(r) ==
    /\ line[r] = "await"
    /\ CanRun(r)
    /\ Goto(r, "call")
    /\ UNCHANGED caches

\* the handler returns its response
Leave(r) ==
    /\ line[r] = "await"
    /\ line' = [line EXCEPT ![r] = "idle"]
    /\ service' = [service EXCEPT ![r] = 0]
    /\ call' = [call EXCEPT ![r] = NoMethod]
    /\ snap' = [snap EXCEPT ![r] = EmptyCache]
    /\ outcome' = [outcome EXCEPT ![r] = None]
    /\ UNCHANGED <<running, inaturalist_service, constructed, caches>>
    /\ UNCHANGED <<cache, now, last, reqvars, purevars>>

\* the clock, which does not wait for the loop
LoopTick ==
    /\ now < MaxTime
    /\ now' = now + 1
    /\ UNCHANGED <<cache, last, reqvars, others>>

LoopNext ==
    \/ \E r \in Reqs : Enter(r)
    \/ \E r \in Reqs : TestNone(r)
    \/ \E r \in Reqs : Construct(r)
    \/ \E r \in Reqs : ReturnService(r)
    \/ \E r \in Reqs, m \in Methods, key \in LoopKeys, value \in LoopValues :
           CallMethod(r, m, key, value)
    \/ \E r \in Reqs : GetTest(r)
    \/ \E r \in Reqs : GetRead(r)
    \/ \E r \in Reqs : GetDel(r)
    \/ \E r \in Reqs : SetStore(r)
    \/ \E r \in Reqs : RemoveTest(r)
    \/ \E r \in Reqs : RemoveDel(r)
    \/ \E r \in Reqs : ClearAll(r)
    \/ \E r \in Reqs : Resume(r)
    \/ \E r \in Reqs : Leave(r)
    \/ LoopTick

LoopSpec == Init /\ [][LoopNext]_vars

(***************************************************************************)
(* KeySpec: the cache keys of two calls side by side                       *)
(***************************************************************************)
\* latitudes in 1e-5 degrees: 12.13449, 12.13451, 12.1350 and the two
\* nearest neighbours of zero
KeyLats == Lats \cup {1213500, -1, 1}
KeyLngs == Lngs \cup {-7950004}
KeyLocales == Locales \cup {"en"}
KeyRadii == {50, 10}
KeyPerPages == {10, 20}
KeyPages == {1, 2}
\* query and locale are free text (routers/insects.py, lines 16-17): a
\* query and a locale that hold the separator of the keys
KeyQueries == Queries \cup {"monarch:es"}
SeparatorLocales == KeyLocales \cup {"es:en"}
KeyTaxonIds == TaxonIds \cup {4721}
Calls == {1, 2}

\* get_observations_by_location up to its cache_key
BuildLocationKey(i, lat, lng, locale, radius, per_page, page) ==
    /\ built[i].op = "none"
    /\ built' = [built EXCEPT ![i] =
           [op |-> "get_observations_by_location", query |-> None,
            lat |-> lat, lng |-> lng, locale |-> locale, radius |-> radius,
            per_page |-> per_page, page |-> page,
            key |-> location_key(lat, lng, locale, radius, per_page, page)]]
    /\ UNCHANGED <<cache, now, last, reqvars, loopvars, mapvars, repovars>>

\* search_observations up to its cache_key
BuildSearchKey(i, query, locale, per_page, page) ==
    /\ built[i].op = "none"
    /\ built' = [built EXCEPT ![i] =
           [op |-> "search_observations", query |-> query,
            lat |-> 0, lng |-> 0, locale |-> locale, radius |-> 0,
            per_page |-> per_page, page |-> page,
            key |-> search_key(query, locale, per_page, page)]]
    /\ UNCHANGED <<cache, now, last, reqvars, loopvars, mapvars, repovars>>

\* get_species_info up to its cache_key
BuildSpeciesKey(i, taxon_id, locale) ==
    /\ built[i].op = "none"
    /\ built' = [built EXCEPT ![i] =
           [op |-> "get_species_info", query |-> None, taxon_id |-> taxon_id,
            lat |-> 0, lng |-> 0, locale |-> locale, radius |-> 0,
            per_page |-> 0, page |-> 0,
            key |-> species_key(taxon_id, locale)]]
    /\ UNCHANGED <<cache, now, last, reqvars, loopvars, mapvars, repovars>>

KeyNext ==
    \/ \E i \in Calls, la \in KeyLats, lo \in KeyLngs, l \in SeparatorLocales,
          rad \in KeyRadii, pp \in KeyPerPages, pg \in KeyPages :
           BuildLocationKey(i, la, lo, l, rad, pp, pg)
    \/ \E i \in Calls, q \in KeyQueries, l \in SeparatorLocales,
          pp \in KeyPerPages, pg \in KeyPages :
           BuildSearchKey(i, q, l, pp, pg)
    \/ \E i \in Calls, t \in KeyTaxonIds, l \in SeparatorLocales :
           BuildSpeciesKey(i, t, l)

KeySpec == Init /\ [][KeyNext]_vars

(***************************************************************************)
(* The field mapper of InsectService (services/insect_service.py)          *)
(*                                                                         *)
(* A Python value is a record tagged with its type.  A str whose           *)
(* characters matter (a stored location) is a sequence of characters; a    *)
(* float is a sign and a magnitude in 1e-4, which keeps -0.0 apart from    *)
(* 0.0 as Python does.  A dict is the sequence of its items in insertion   *)
(* order, the order "for key, value in data.items()" visits them in.       *)
(***************************************************************************)
NoneValue == [t |-> "none"]
Str(s) == [t |-> "str", s |-> s]
Text(chars) == [t |-> "text", chars |-> chars]
Float(neg, mag) == [t |-> "float", neg |-> neg, mag |-> mag]
\* an object with attributes x and y (a geometry object of the driver)
PointObject(x, y) == [t |-> "point", x |-> x, y |-> y]
\* a dict with a 'coordinates' item (GeoJSON)
GeoJSON(coordinates) == [t |-> "geojson", coordinates |-> coordinates]
\* a value of none of these shapes (a list of numbers)
ListValue(items) == [t |-> "list", items |-> items]

\* Python's truth test of a value
IsTruthy(v) ==
    CASE v.t = "none" -> FALSE
      [] v.t = "str" -> v.s # ""
      [] v.t = "text" -> v.chars # <<>>
      [] v.t = "float" -> v.mag # 0
      [] v.t = "list" -> v.items # <<>>
      [] OTHER -> TRUE

\* a == b for two floats
NumEqual(a, b) == a.mag = b.mag /\ (a.neg = b.neg \/ a.mag = 0)

Item(k, v) == [k |-> k, v |-> v]
EmptyDict == <<>>
DictKeys(d) == {d[i].k : i \in DOMAIN d}
\* d[k]
DictGet(d, k) == d[CHOOSE i \in DOMAIN d : d[i].k = k].v
\* d[k] = v: an existing key keeps its place, a new key goes last
DictPut(d, k, v) ==
    IF k \in DictKeys(d)
    THEN [i \in DOMAIN d |-> IF d[i].k = k THEN Item(k, v) ELSE d[i]]
    ELSE Append(d, Item(k, v))

\* field_mapping of _convert_to_db_format (lines 29-47)
to_db_mapping ==
    [user_id |-> "user_id", inaturalist_id |-> "inaturalist_id",
     scientific_name |-> "nombre_cientifico", common_name |-> "nombre_comun",
     observation_date |-> "fecha_observacion",
     latitude |-> None, longitude |-> None,
     condition_id |-> "condicion_id", state_id |-> "estado_id",
     stage_id |-> "etapa_id", sex_id |-> "sexo_id",
     description |-> "descripcion",
     photo_url |-> "url_foto", order |-> "orden",
     observation_id |-> "observacion_id"]

\* field_mapping of _convert_from_db_format (lines 73-91)
from_db_mapping ==
    [user_id |-> "user_id", inaturalist_id |-> "inaturalist_id",
     nombre_cientifico |-> "scientific_name", nombre_comun |-> "common_name",
     fecha_observacion |-> "observation_date",
     ubicacion |-> None,
     condicion_id |-> "condition_id", estado_id |-> "state_id",
     etapa_id |-> "stage_id", sexo_id |-> "sex_id",
     descripcion |-> "description",
     created_at |-> "created_at",
     url_foto |-> "photo_url", orden |-> "order",
     observacion_id |-> "observation_id"]

\* a generic pass that also copies the keys whose target is None
GenericPass_keep_null(field_mapping, data, i, res) ==
    LET n == Len(data) - i + 1
        step[j \in 0..n] ==
            IF j = 0 THEN res
            ELSE LET key == data[i + j - 1].k
                     value == data[i + j - 1].v
                 IN IF key \in DOMAIN field_mapping
                       /\ field_mapping[key] # None
                    THEN DictPut(step[j - 1], field_mapping[key], value)
                    ELSE DictPut(step[j - 1], key, value)
    IN step[n]

\* the loop over data.items() of both directions (lines 50-55, 94-99),
\* from item i on, with res the result as built so far
RECURSIVE GenericPass(_, _, _, _)
GenericPass(field_mapping, data, i, res) ==
    IF i > Len(data) THEN res
    ELSE LET key == data[i].k
             value == data[i].v
         IN IF key \in DOMAIN field_mapping /\ field_mapping[key] # None
            THEN GenericPass(field_mapping, data, i + 1,
                             DictPut(res, field_mapping[key], value))
            ELSE IF key \notin DOMAIN field_mapping
            THEN GenericPass(field_mapping, data, i + 1,
                             DictPut(res, key, value))
            ELSE GenericPass(field_mapping, data, i + 1, res)

\* ---- str and float ----
Digits == <<"0", "1", "2", "3", "4", "5", "6", "7", "8", "9">>
IsDigit(c) == \E d \in DOMAIN Digits : Digits[d] = c
DigitValue(c) == (CHOOSE d \in DOMAIN Digits : Digits[d] = c) - 1

\* str(n) of a natural number, character by character
RECURSIVE NatChars(_)
NatChars(n) ==
    IF n < 10 THEN <<Digits[n + 1]>>
    ELSE NatChars(n \div 10) \o <<Digits[(n % 10) + 1]>>

\* the number a string of digits stands for ("" counts as 0)
RECURSIVE DigitsValue(_)
DigitsValue(cs) ==
    IF cs = <<>> THEN 0
    ELSE 10 * DigitsValue(SubSeq(cs, 1, Len(cs) - 1)) + DigitValue(cs[Len(cs)])

\* str() of a float as an f-string writes it: sign, integer part, point
\* and the decimals without trailing zeros, at least one (FormatFloat,
\* character by character)
float_str(f) ==
    LET fr == f.mag % 10000
        d1 == Digits[(fr \div 1000) + 1]
        d2 == Digits[((fr \div 100) % 10) + 1]
        d3 == Digits[((fr \div 10) % 10) + 1]
        d4 == Digits[(fr % 10) + 1]
        frac == IF fr % 10 # 0 THEN <<d1, d2, d3, d4>>
                ELSE IF fr % 100 # 0 THEN <<d1, d2, d3>>
                ELSE IF fr % 1000 # 0 THEN <<d1, d2>>
                ELSE <<d1>>
    IN (IF f.neg THEN <<"-">> ELSE <<>>) \o NatChars(f.mag \div 10000)
          \o <<".">> \o frac

\* float() of a str without blanks: an optional sign, digits with at most
\* one point among them and at least one digit; anything else is a
\* ValueError.  Decimals beyond the fourth are not kept.
float_of_text(cs) ==
    LET signed == cs # <<>> /\ cs[1] \in {"-", "+"}
        body == IF signed THEN Tail(cs) ELSE cs
        points == {i \in DOMAIN body : body[i] = "."}
        p == IF points = {} THEN Len(body) + 1
             ELSE CHOOSE i \in points : TRUE
        whole == SubSeq(body, 1, p - 1)
        frac == SubSeq(body, p + 1, Len(body))
        frac4 == SubSeq(frac \o <<"0", "0", "0", "0">>, 1, 4)
        wellformed ==
            /\ Cardinality(points) <= 1
            /\ \A i \in DOMAIN whole : IsDigit(whole[i])
            /\ \A i \in DOMAIN frac : IsDigit(frac[i])
            /\ Len(whole) + Len(frac) > 0
    IN IF wellformed
       THEN [ok |-> TRUE,
             f |-> Float(signed /\ cs[1] = "-",
                         10000 * DigitsValue(whole) + DigitsValue(frac4))]
       ELSE [ok |-> FALSE, f |-> Float(FALSE, 0)]

\* float(v): a float is itself, a str is parsed (ValueError), None and the
\* other types have no float (TypeError)
to_float(v) ==
    CASE v.t = "float" -> [ok |-> TRUE, f |-> v]
      [] v.t = "text" -> float_of_text(v.chars)
      [] OTHER -> [ok |-> FALSE, f |-> Float(FALSE, 0)]

StartsWith(cs, prefix) ==
    Len(cs) >= Len(prefix) /\ SubSeq(cs, 1, Len(prefix)) = prefix

\* cs.replace(old, ""): every occurrence of old, from the left, is dropped
RECURSIVE Remove(_, _)
Remove(cs, old) ==
    IF cs = <<>> THEN <<>>
    ELSE IF StartsWith(cs, old)
         THEN Remove(SubSeq(cs, Len(old) + 1, Len(cs)), old)
         ELSE <<Head(cs)>> \o Remove(Tail(cs), old)

\* cs.split(): the runs of characters between blanks; cur is the run
\* being read
RECURSIVE SplitFrom(_, _)
SplitFrom(cs, cur) ==
    IF cs = <<>> THEN (IF cur = <<>> THEN <<>> ELSE <<cur>>)
    ELSE IF Head(cs) = " "
         THEN (IF cur = <<>> THEN <<>> ELSE <<cur>>) \o SplitFrom(Tail(cs), <<>>)
         ELSE SplitFrom(Tail(cs), Append(cur, Head(cs)))

split(cs) == SplitFrom(cs, <<>>)

POINT_OPEN == <<"P", "O", "I", "N", "T", "(">>

\* ---- the location: POINT(lng lat) ----
\* an encoder that writes the latitude first
encode_lat_first(lat, lng) ==
    Text(POINT_OPEN \o float_str(lat) \o <<" ">> \o float_str(lng) \o <<")">>)

\* f"POINT({lng} {lat})" (line 63)
encode(lat, lng) ==
    Text(POINT_OPEN \o float_str(lng) \o <<" ">> \o float_str(lat) \o <<")">>)

Decoded(lng, lat) == [status |-> "decoded", longitude |-> lng, latitude |-> lat]
\* the except branch: both coordinates are given the default 0.0
Defaulted == [status |-> "defaulted", longitude |-> Float(FALSE, 0),
              latitude |-> Float(FALSE, 0)]
\* no branch has assigned a coordinate and nothing was raised
Unset == [status |-> "unset", longitude |-> Float(FALSE, 0),
          latitude |-> Float(FALSE, 0)]

\* two values read as a pair of coordinates: float() of each, and the
\* except branch when either raises
Pair(lng, lat) ==
    IF lng.ok /\ lat.ok THEN Decoded(lng.f, lat.f) ELSE Defaulted

\* the try block of _convert_from_db_format (lines 103-126) for a truthy
\* location value point_str; a str location is always given by its
\* characters
decode(point_str) ==
    CASE point_str.t = "text" ->
             LET coords == split(Remove(Remove(point_str.chars, POINT_OPEN),
                                        <<")">>))
             IN IF Len(coords) = 2
                THEN Pair(float_of_text(coords[1]), float_of_text(coords[2]))
                ELSE Unset
      [] point_str.t = "point" ->
             Pair(to_float(point_str.x), to_float(point_str.y))
      [] point_str.t = "geojson" ->
             LET coords == point_str.coordinates
             IN IF Len(coords) = 2
                THEN Pair(to_float(coords[1]), to_float(coords[2]))
                ELSE Unset
      [] OTHER -> Unset

\* InsectService._convert_to_db_format (lines 27-69)
convert_to_db_format(data) ==
    LET res == GenericPass(to_db_mapping, data, 1, EmptyDict)
    IN IF "latitude" \in DictKeys(data) /\ "longitude" \in DictKeys(data)
       THEN LET lat == to_float(DictGet(data, "latitude"))
                lng == to_float(DictGet(data, "longitude"))
            IN IF lat.ok /\ lng.ok
               THEN DictPut(res, "ubicacion", encode(lat.f, lng.f))
               ELSE res
       ELSE res

\* InsectService._convert_from_db_format (lines 71-128)
convert_from_db_format(data) ==
    LET res == GenericPass(from_db_mapping, data, 1, EmptyDict)
    IN IF "ubicacion" \in DictKeys(data) /\ IsTruthy(DictGet(data, "ubicacion"))
       THEN LET d == decode(DictGet(data, "ubicacion"))
            IN IF d.status = "unset" THEN res
               ELSE DictPut(DictPut(res, "longitude", d.longitude),
                            "latitude", d.latitude)
       ELSE res

(***************************************************************************)
(* MapSpec: the field mapper applied to records                            *)
(*                                                                         *)
(* A caller builds a dict item by item, either an external record (the     *)
(* dict of a request model) or a stored row (what the datastore returns),  *)
(* and hands it to the mapper; a stored record goes back through           *)
(* _convert_from_db_format for the round trip.                             *)
(***************************************************************************)
\* items a dict has at most
MaxFields == 4

\* 8.98, -0.5, 0.0, -0.0
SomeLats == {Float(FALSE, 89800), Float(TRUE, 5000), Float(FALSE, 0),
             Float(TRUE, 0)}
\* -79.5, 12.1345, 0.0
SomeLngs == {Float(TRUE, 795000), Float(FALSE, 121345), Float(FALSE, 0)}

\* the items of external records: fields of ObservationCreate and
\* ObservationUpdate (whose coordinates may be null) and the id
ExternalItems ==
    {Item("scientific_name", Str("Danaus plexippus")),
     Item("description", Str("on milkweed")),
     Item("description", NoneValue),
     Item("id", Str("obs-1"))}
    \cup {Item("latitude", v) : v \in SomeLats \cup {NoneValue}}
    \cup {Item("longitude", v) : v \in SomeLngs \cup {NoneValue}}

\* values found in the location column
Locations ==
    {encode(Float(FALSE, 89800), Float(TRUE, 795000)),
     encode(Float(FALSE, 0), Float(FALSE, 0)),
     \* the hexadecimal form the column is read back in
     Text(<<"0", "1", "0", "1", "E", "6">>),
     Text(POINT_OPEN \o <<")">>),
     Text(POINT_OPEN \o <<"a", " ", "b", ")">>),
     Text(POINT_OPEN \o <<"1", ".", "5", " ", "b", ")">>),
     Text(POINT_OPEN \o <<"1", " ", "2", " ", "3", ")">>),
     \* two numbers without the POINT( ) around them
     Text(<<"-", "7", "9", ".", "5", " ", "8", ".", "9", "8">>),
     Text(<<>>),
     NoneValue,
     PointObject(Float(TRUE, 795000), Float(FALSE, 89800)),
     PointObject(NoneValue, NoneValue),
     GeoJSON(<<Float(TRUE, 795000), Float(FALSE, 89800)>>),
     GeoJSON(<<Float(TRUE, 795000), Float(FALSE, 89800), Float(FALSE, 0)>>),
     ListValue(<<Float(TRUE, 795000), Float(FALSE, 89800)>>)}

\* the items of stored rows
StoredItems ==
    {Item("nombre_cientifico", Str("Danaus plexippus")),
     Item("descripcion", Str("on milkweed")),
     Item("id", Str("obs-1")),
     Item("created_at", Str("2024-05-01T10:00:00"))}
    \cup {Item("ubicacion", v) : v \in Locations}

\* the caller adds an item to the external record it is building
AddExternalField(item) ==
    /\ stage \in {"empty", "external"}
    /\ Len(given) < MaxFields
    /\ item.k \notin DictKeys(given)
    /\ given' = DictPut(given, item.k, item.v)
    /\ stage' = "external"
    /\ UNCHANGED returned
    /\ UNCHANGED <<cache, now, last, reqvars, loopvars, keyvars, repovars>>

\* the datastore adds a column to the row it returns
AddStoredField(item) ==
    /\ stage \in {"empty", "stored"}
    /\ Len(given) < MaxFields
    /\ item.k \notin DictKeys(given)
    /\ given' = DictPut(given, item.k, item.v)
    /\ stage' = "stored"
    /\ UNCHANGED returned
    /\ UNCHANGED <<cache, now, last, reqvars, loopvars, keyvars, repovars>>

\* db_data = self._convert_to_db_format(observation_data)
ToStorage ==
    /\ stage = "external"
    /\ returned' = convert_to_db_format(given)
    /\ stage' = "to_db"
    /\ UNCHANGED given
    /\ UNCHANGED <<cache, now, last, reqvars, loopvars, keyvars, repovars>>

\* observation_data = self._convert_from_db_format(response.data[0])
ToExternal ==
    /\ stage = "stored"
    /\ returned' = convert_from_db_format(given)
    /\ stage' = "from_db"
    /\ UNCHANGED given
    /\ UNCHANGED <<cache, now, last, reqvars, loopvars, keyvars, repovars>>

\* the stored form of the record is mapped back
RoundTrip ==
    /\ stage = "to_db"
    /\ returned' = convert_from_db_format(returned)
    /\ stage' = "round_trip"
    /\ UNCHANGED given
    /\ UNCHANGED <<cache, now, last, reqvars, loopvars, keyvars, repovars>>

MapNext ==
    \/ \E item \in ExternalItems : AddExternalField(item)
    \/ \E item \in StoredItems : AddStoredField(item)
    \/ ToStorage
    \/ ToExternal
    \/ RoundTrip

MapSpec == Init /\ [][MapNext]_vars

(***************************************************************************)
(* The observation and photo operations of InsectService                   *)
(* (services/insect_service.py, lines 130-152 and 180-476)                 *)
(*                                                                         *)
(* The datastore is the collaborator behind self.client: two tables of     *)
(* rows, observacion_fotos referring to observaciones by observacion_id    *)
(* (the relation the embedded select of lines 184 and 232 relies on).      *)
(* Every call of it either raises, or gives back the rows it acted on.     *)
(* The client is the synchronous one, so an operation runs from its first  *)
(* statement to its return without another request in between; it is       *)
(* modelled one datastore call per step to keep the order of the calls,    *)
(* and the next request begins when the operation has returned.            *)
(***************************************************************************)
\* a UUID object, as the request models hold for user_id
UUIDValue(s) == [t |-> "uuid", s |-> s]
\* an int
IntValue(n) == [t |-> "int", n |-> n]

\* d.pop(k)
DictPop(d, k) == SelectSeq(d, LAMBDA it : it.k # k)

\* d[new] = d.pop(old), guarded by "if old in d"
Rename(d, old, new) ==
    IF old \in DictKeys(d)
    THEN DictPut(DictPop(d, old), new, DictGet(d, old))
    ELSE d

\* InsectService._serialize_uuid_and_date (lines 130-152): a UUID becomes
\* its str, inside lists too; the other values of this model are kept
RECURSIVE serialize_value(_)
serialize_value(v) ==
    CASE v.t = "uuid" -> Str(v.s)
      [] v.t = "list" ->
             ListValue([i \in DOMAIN v.items |-> serialize_value(v.items[i])])
      [] OTHER -> v

serialize_uuid_and_date(data) ==
    [i \in DOMAIN data |-> Item(data[i].k, serialize_value(data[i].v))]

\* ---- the datastore ----
\* the columns of the two tables that the model keeps
ObservationColumns ==
    <<"id", "user_id", "nombre_cientifico", "descripcion", "ubicacion">>
PhotoColumns == <<"id", "observacion_id", "url_foto", "descripcion", "orden">>

\* what the location column gives back that is not the text written: the
\* hexadecimal form of the geometry
HexForm == Text(<<"0", "1", "0", "1", "E", "6">>)

\* the forms a written location may be read back in: as written where
\* the column is a text, in the hexadecimal form where it is a geometry
StoredForms(v) == IF v.t = "text" THEN {v, HexForm} ELSE {v}

\* the row insert(db_data) adds: the new identifier and every column,
\* null where db_data has none; loc is the location as stored
NewRow(columns, db_data, id, loc) ==
    [i \in DOMAIN columns |->
        Item(columns[i],
             IF columns[i] = "id" THEN id
             ELSE IF columns[i] \notin DictKeys(db_data) THEN NoneValue
             ELSE IF columns[i] = "ubicacion" THEN loc
             ELSE DictGet(db_data, columns[i]))]

\* the row update(db_data) leaves: the columns of db_data are overwritten
PatchRow(row, db_data, loc) ==
    [i \in DOMAIN row |->
        IF row[i].k \notin DictKeys(db_data) THEN row[i]
        ELSE IF row[i].k = "ubicacion" THEN Item("ubicacion", loc)
        ELSE Item(row[i].k, DictGet(db_data, row[i].k))]

\* .eq(column, value)
Eq(rows, column, value) ==
    SelectSeq(rows, LAMBDA row : DictGet(row, column) = value)
\* a delete that removes no row
NotEq_keep(rows, column, value) == rows

\* the rows .delete().eq(column, value) leaves
NotEq(rows, column, value) ==
    SelectSeq(rows, LAMBDA row : DictGet(row, column) # value)

\* select("*, observacion_fotos(*)"): each row with its photo rows in it
Embed(rows, fotos) ==
    [i \in DOMAIN rows |->
        Append(rows[i],
               Item("observacion_fotos",
                    ListValue(Eq(fotos, "observacion_id",
                                 DictGet(rows[i], "id")))))]

\* .order("orden"): ascending, the rows without an order last, rows of
\* equal order as the table has them
OrderKey(row) ==
    IF DictGet(row, "orden").t = "int" THEN DictGet(row, "orden").n ELSE 1000
RECURSIVE OrderByOrden(_)
OrderByOrden(rows) ==
    IF rows = <<>> THEN <<>>
    ELSE LET least == CHOOSE i \in DOMAIN rows :
                          \A j \in DOMAIN rows :
                              \/ OrderKey(rows[i]) < OrderKey(rows[j])
                              \/ (OrderKey(rows[i]) = OrderKey(rows[j])
                                  /\ i <= j)
         IN <<rows[least]>>
            \o OrderByOrden(SubSeq(rows, 1, least - 1)
                            \o SubSeq(rows, least + 1, Len(rows)))

\* the identifier the datastore generates for its n-th row
NewId(prefix, n) == Str(prefix \o ToString(n))

\* a call of the datastore as the log keeps it
DbCall(table, verb, payload, key, raised) ==
    [table |-> table, verb |-> verb, payload |-> payload, key |-> key,
     raised |-> raised]

\* ---- what the operations return ----
\* a failure that hands back an observation with the error
Failure_with_payload(error) ==
    [success |-> FALSE, error |-> error, observation |-> <<>>]
Failure(error) == [success |-> FALSE, error |-> error]
\* str(e) of an exception the operation caught
Exception == "exception"
NotFound == "Observation not found"
NoReply == [success |-> None]
Zero == Float(FALSE, 0)

\* get_observation, lines 194-205: a str location is read a second time,
\* the longitude being assigned before the latitude is parsed
reread_location(observation_data, point_str) ==
    IF point_str.t # "text" THEN observation_data
    ELSE LET coords == split(Remove(Remove(point_str.chars, POINT_OPEN),
                                    <<")">>))
         IN IF Len(coords) # 2 THEN observation_data
            ELSE LET lng == float_of_text(coords[1])
                     lat == float_of_text(coords[2])
                 IN IF ~lng.ok THEN observation_data
                    ELSE IF ~lat.ok
                    THEN DictPut(observation_data, "longitude", lng.f)
                    ELSE DictPut(DictPut(observation_data, "longitude", lng.f),
                                 "latitude", lat.f)

\* get_observation, lines 207-210
default_both(observation_data) ==
    IF "latitude" \notin DictKeys(observation_data)
       \/ "longitude" \notin DictKeys(observation_data)
    THEN DictPut(DictPut(observation_data, "latitude", Zero),
                 "longitude", Zero)
    ELSE observation_data

\* lines 213-219 and 239-245: the photo rows of a row, each mapped
photos_of(row) ==
    IF "observacion_fotos" \in DictKeys(row)
       /\ IsTruthy(DictGet(row, "observacion_fotos"))
    THEN LET fotos == DictGet(row, "observacion_fotos").items
         IN [i \in DOMAIN fotos |-> convert_from_db_format(fotos[i])]
    ELSE <<>>

\* get_observation, lines 191-221, for the row found
observation_of(row) ==
    LET mapped == convert_from_db_format(row)
        located == IF "ubicacion" \in DictKeys(row)
                      /\ IsTruthy(DictGet(row, "ubicacion"))
                   THEN reread_location(mapped, DictGet(row, "ubicacion"))
                   ELSE mapped
    IN DictPut(default_both(located), "photos", ListValue(photos_of(row)))

\* InsectService.get_observation (lines 180-227) on the tables as they
\* are; raised: the select raises
get_observation(observation_id, raised) ==
    IF raised THEN Failure(Exception)
    ELSE LET rows == Embed(Eq(observaciones, "id", observation_id),
                           observacion_fotos)
         IN IF rows = <<>> THEN Failure(NotFound)
            ELSE [success |-> TRUE, observation |-> observation_of(rows[1])]

\* a list that leaves a missing coordinate missing
default_each_none(observation_data, k) == observation_data

\* get_user_observations, lines 248-254: each coordinate on its own
default_each(observation_data, k) ==
    IF k \notin DictKeys(observation_data)
       \/ DictGet(observation_data, k) = NoneValue
    THEN DictPut(observation_data, k, Zero)
    ELSE observation_data

\* get_user_observations, lines 236-256, for one row
listed_of(row) ==
    default_each(default_each(DictPut(convert_from_db_format(row), "photos",
                                      ListValue(photos_of(row))),
                              "latitude"),
                 "longitude")

\* InsectService.get_user_observations (lines 229-264)
get_user_observations(user_id, raised) ==
    IF raised THEN Failure(Exception)
    ELSE LET rows == Embed(Eq(observaciones, "user_id", user_id),
                           observacion_fotos)
             observations == [i \in DOMAIN rows |-> listed_of(rows[i])]
         IN [success |-> TRUE, observations |-> observations,
             total |-> Len(observations)]

\* InsectService.get_observation_photos (lines 464-476)
get_observation_photos(observation_id, raised) ==
    IF raised THEN Failure(Exception)
    ELSE LET rows == OrderByOrden(Eq(observacion_fotos, "observacion_id",
                                     observation_id))
             photos == [i \in DOMAIN rows |-> convert_from_db_format(rows[i])]
         IN [success |-> TRUE, photos |-> photos, total |-> Len(photos)]

\* a photo loop that leaves the parent reference out
photo_data_of_no_parent(photo, observation_id, i) ==
    IF "order" \notin DictKeys(photo) \/ DictGet(photo, "order") = NoneValue
    THEN DictPut(photo, "orden", IntValue(i))
    ELSE Rename(photo, "order", "orden")

\* create_observation, lines 298-307: the dict handed to
\* add_observation_photo for the photo at position i (from 1)
photo_data_of(photo, observation_id, i) ==
    LET parented == DictPut(photo, "observacion_id", observation_id)
    IN IF "order" \notin DictKeys(parented)
          \/ DictGet(parented, "order") = NoneValue
       THEN DictPut(parented, "orden", IntValue(i))
       ELSE Rename(parented, "order", "orden")

\* add_observation_photo, lines 394-412: the dict it inserts
photo_db_data(photo_data) ==
    convert_to_db_format(
        Rename(Rename(Rename(serialize_uuid_and_date(photo_data),
                             "observation_id", "observacion_id"),
                      "order", "orden"),
               "photo_url", "url_foto"))

\* float(original) of lines 326-327 and 339-340
Originals(created_observation, original_latitude, original_longitude) ==
    LET lat == to_float(original_latitude)
        lng == to_float(original_longitude)
    IN IF lat.ok /\ lng.ok
       THEN [success |-> TRUE,
             observation |-> DictPut(DictPut(created_observation,
                                             "latitude", lat.f),
                                     "longitude", lng.f)]
       ELSE Failure(Exception)

\* create_observation, lines 316-347: the response, from the result of
\* the re-read, the inserted row, the photos created and the coordinates
\* of the request
create_response(observation_result, row, created_photos, original_latitude, original_longitude) ==
    IF observation_result.success
    THEN LET created_observation ==
                 DictPut(observation_result.observation, "photos",
                         ListValue(created_photos))
         IN IF ("latitude" \notin DictKeys(created_observation)
                \/ "longitude" \notin DictKeys(created_observation))
               /\ original_latitude # NoneValue
               /\ original_longitude # NoneValue
            THEN Originals(created_observation, original_latitude,
                           original_longitude)
            ELSE [success |-> TRUE, observation |-> created_observation]
    ELSE LET created_observation ==
                 DictPut(convert_from_db_format(row), "photos",
                         ListValue(created_photos))
         IN IF "latitude" \notin DictKeys(created_observation)
               \/ "longitude" \notin DictKeys(created_observation)
            THEN IF original_latitude # NoneValue
                    /\ original_longitude # NoneValue
                 THEN Originals(created_observation, original_latitude,
                                original_longitude)
                 ELSE [success |-> TRUE,
                       observation |->
                           DictPut(DictPut(created_observation,
                                           "latitude", Zero),
                                   "longitude", Zero)]
            ELSE [success |-> TRUE, observation |-> created_observation]

(***************************************************************************)
(* RepoSpec: requests against the two tables                               *)
(***************************************************************************)
\* identifiers the datastore generates at most, for observations and for
\* the photos of photo requests together
MaxRows == 2

Users == {"u1", "u2"}
\* the identifiers a request may name; the last is never generated
ObservationIds == {NewId("o", n) : n \in 1..(MaxRows + 1)}

\* how a datastore call ends: it raises, it gives back no row, or it
\* gives back the rows it acted on
Outcomes == {"raise", "empty", "ok"}

\* photos of a create request: PhotoCreateNested.dict() with the order
\* null or given, and a dict without the key as a direct caller may pass
\* photo rows the table holds at most when a request with photos begins
MaxPhotoRows == 1
WithOrder(v) ==
    <<Item("photo_url", Str("a.jpg")), Item("description", NoneValue),
      Item("order", v)>>
PhotoLists ==
    {<<>>,
     <<WithOrder(NoneValue), WithOrder(IntValue(7))>>,
     <<<<Item("photo_url", Str("a.jpg")), Item("description", NoneValue)>>>>}

\* ObservationCreate.dict(): the coordinates are floats
CreateInputs ==
    {<<Item("user_id", UUIDValue(u)),
       Item("scientific_name", Str("Danaus plexippus")),
       Item("latitude", Float(FALSE, 89800)),
       Item("longitude", Float(TRUE, 795000)),
       Item("description", NoneValue),
       Item("photos", ListValue(photos))>> :
         u \in {"u1"}, photos \in PhotoLists}

\* ObservationUpdate.dict(exclude_unset=True): the fields the request
\* names, a coordinate possibly null
UpdateInputs ==
    {<<Item("description", Str("on milkweed"))>>,
     <<Item("latitude", Float(FALSE, 89800)),
       Item("longitude", Float(TRUE, 795000))>>,
     <<Item("latitude", NoneValue), Item("longitude", Float(TRUE, 0)),
       Item("description", Str("on milkweed"))>>,
     <<Item("longitude", Float(TRUE, 795000)),
       Item("description", Str("on milkweed"))>>,
     <<Item("latitude", Float(FALSE, 89800))>>}

\* locations of rows the API did not write
OtherLocations ==
    {NoneValue, Text(POINT_OPEN \o <<"1", ".", "5", " ", "b", ")">>)}

Tables == [observaciones |-> observaciones,
           observacion_fotos |-> observacion_fotos]
Idle == [name |-> "none", at |-> "idle"]

\* the column is one or the other for all rows: a table that holds the
\* hexadecimal form holds no text, and the other way round
Fits(loc) ==
    \A i \in DOMAIN observaciones :
        LET held == DictGet(observaciones[i], "ubicacion")
        IN held.t = "text" /\ loc.t = "text"
               => ((held = HexForm) <=> (loc = HexForm))

\* the forms db_data's location may be stored in
LocationForms(db_data) ==
    IF "ubicacion" \in DictKeys(db_data)
    THEN {loc \in StoredForms(DictGet(db_data, "ubicacion")) : Fits(loc)}
    ELSE {NoneValue}

\* a row of observaciones that another client of the datastore wrote
ExistingRow(loc) ==
    /\ task = Idle
    /\ serial < MaxRows
    /\ Fits(loc)
    /\ serial' = serial + 1
    /\ observaciones' =
           Append(observaciones,
                  NewRow(ObservationColumns,
                         <<Item("user_id", Str("u2")),
                           Item("nombre_cientifico", Str("Danaus plexippus")),
                           Item("ubicacion", loc)>>,
                         NewId("o", serial + 1), loc))
    /\ UNCHANGED <<observacion_fotos, task, issued, before, reply>>
    /\ UNCHANGED <<cache, now, last, reqvars, loopvars, keyvars, mapvars>>

\* InsectService.create_observation up to the insert of the observation
\* (lines 266-293)
create_observation(observation_data, how) ==
    /\ task = Idle
    /\ serial < MaxRows
    /\ IsTruthy(DictGet(observation_data, "photos"))
           => Len(observacion_fotos) <= MaxPhotoRows
    /\ LET photos == IF "photos" \in DictKeys(observation_data)
                     THEN DictGet(observation_data, "photos")
                     ELSE ListValue(<<>>)
           rest == DictPop(observation_data, "photos")
           db_data == convert_to_db_format(serialize_uuid_and_date(rest))
           id == NewId("o", serial + 1)
           locals ==
               [name |-> "create", observation_data |-> observation_data,
                photos |-> photos.items, i |-> 1,
                original_latitude |->
                    IF "latitude" \in DictKeys(rest)
                    THEN DictGet(rest, "latitude") ELSE NoneValue,
                original_longitude |->
                    IF "longitude" \in DictKeys(rest)
                    THEN DictGet(rest, "longitude") ELSE NoneValue,
                db_data |-> db_data, created_photos |-> <<>>]
       IN /\ before' = Tables
          /\ issued' = <<DbCall("observaciones", "insert", db_data, None,
                                how = "raise")>>
          /\ IF how = "ok"
             THEN \E loc \in LocationForms(db_data) :
                  LET row == NewRow(ObservationColumns, db_data, id, loc)
                  IN /\ observaciones' = Append(observaciones, row)
                     /\ serial' = serial + 1
                     /\ task' = locals @@
                            [at |-> IF IsTruthy(photos) THEN "photos"
                                    ELSE "reread",
                             observation_id |-> id, row |-> row]
                     /\ reply' = NoReply
             ELSE /\ UNCHANGED <<observaciones, serial>>
                  /\ task' = locals @@ [at |-> "idle"]
                  /\ reply' = Failure(IF how = "raise" THEN Exception
                                      ELSE "Error creating observation")
    /\ UNCHANGED observacion_fotos
    /\ UNCHANGED <<cache, now, last, reqvars, loopvars, keyvars, mapvars>>

\* a photo loop that gives up at the first photo whose insert fails
add_observation_photo_abort(how) ==
    /\ task.at = "photos"
    /\ LET i == task.i
           db_data == photo_db_data(photo_data_of(task.photos[i],
                                                  task.observation_id, i))
           id == Str(task.observation_id.s \o "." \o ToString(i))
           row == NewRow(PhotoColumns, db_data, id, NoneValue)
       IN /\ issued' = Append(issued,
                              DbCall("observacion_fotos", "insert", db_data,
                                     None, how = "raise"))
          /\ IF how = "ok"
             THEN /\ observacion_fotos' = Append(observacion_fotos, row)
                  /\ task' = [task EXCEPT
                                !.i = i + 1,
                                !.at = IF i = Len(task.photos) THEN "reread"
                                       ELSE "photos",
                                !.created_photos =
                                    Append(@, convert_from_db_format(row))]
             ELSE /\ UNCHANGED observacion_fotos
                  /\ task' = [task EXCEPT !.i = i + 1, !.at = "reread"]
    /\ UNCHANGED <<observaciones, serial, before, reply>>
    /\ UNCHANGED <<cache, now, last, reqvars, loopvars, keyvars, mapvars>>

\* one turn of the photo loop of create_observation (lines 297-313) with
\* the add_observation_photo it awaits (lines 390-429)
add_observation_photo(how) ==
    /\ task.at = "photos"
    /\ LET i == task.i
           photo_data == photo_data_of(task.photos[i], task.observation_id, i)
           db_data == photo_db_data(photo_data)
           id == Str(task.observation_id.s \o "." \o ToString(i))
           row == NewRow(PhotoColumns, db_data, id, NoneValue)
           next == IF i = Len(task.photos) THEN "reread" ELSE "photos"
       IN /\ issued' = Append(issued,
                              DbCall("observacion_fotos", "insert", db_data,
                                     None, how = "raise"))
          /\ IF how = "ok"
             THEN /\ observacion_fotos' = Append(observacion_fotos, row)
                  /\ task' = [task EXCEPT
                                !.i = i + 1, !.at = next,
                                !.created_photos =
                                    Append(@, convert_from_db_format(row))]
             ELSE /\ UNCHANGED observacion_fotos
                  /\ task' = [task EXCEPT !.i = i + 1, !.at = next]
    /\ UNCHANGED <<observaciones, serial, before, reply>>
    /\ UNCHANGED <<cache, now, last, reqvars, loopvars, keyvars, mapvars>>

\* the end of create_observation: the re-read and the response
\* (lines 315-347)
CreateReRead(raised) ==
    /\ task.at = "reread"
    /\ task.name = "create"
    /\ issued' = Append(issued, DbCall("observaciones", "select", None,
                                       task.observation_id, raised))
    /\ reply' = create_response(get_observation(task.observation_id, raised),
                                task.row, task.created_photos,
                                task.original_latitude,
                                task.original_longitude)
    /\ task' = [task EXCEPT !.at = "idle"]
    /\ UNCHANGED <<observaciones, observacion_fotos, serial, before>>
    /\ UNCHANGED <<cache, now, last, reqvars, loopvars, keyvars, mapvars>>

\* an update that writes the description whether the request names it or
\* not, null when it does not
update_db_data_defaults(observation_data) ==
    convert_to_db_format(
        serialize_uuid_and_date(
            IF "description" \in DictKeys(observation_data)
            THEN observation_data
            ELSE DictPut(observation_data, "description", NoneValue)))

\* what update_observation hands to the datastore (lines 352-356)
update_db_data(observation_data) ==
    convert_to_db_format(serialize_uuid_and_date(observation_data))

\* .update(db_data).eq("id", ...).execute() gives back the rows it
\* updated. For a db_data without columns there is nothing to set, and
\* what the datastore then gives back is its own choice: the rows the
\* filter matches, or no row (TRUE: the rows are given back)
UpdateAnswers(db_data) == IF db_data = EmptyDict THEN BOOLEAN ELSE {TRUE}

\* InsectService.update_observation up to the update of the row
\* (lines 349-363)
update_observation(observation_id, observation_data, raised) ==
    /\ task = Idle
    /\ LET db_data == update_db_data(observation_data)
           hit == {i \in DOMAIN observaciones :
                      DictGet(observaciones[i], "id") = observation_id}
           locals == [name |-> "update", observation_id |-> observation_id,
                      observation_data |-> observation_data,
                      db_data |-> db_data]
       IN /\ before' = Tables
          /\ issued' = <<DbCall("observaciones", "update", db_data,
                                observation_id, raised)>>
          /\ IF raised
             THEN /\ UNCHANGED observaciones
                  /\ task' = locals @@ [at |-> "idle"]
                  /\ reply' = Failure(Exception)
             ELSE \E answered \in UpdateAnswers(db_data) :
                  /\ \E loc \in LocationForms(db_data) :
                         observaciones' =
                             [i \in DOMAIN observaciones |->
                                 IF i \in hit
                                 THEN PatchRow(observaciones[i], db_data, loc)
                                 ELSE observaciones[i]]
                  /\ IF hit = {} \/ ~answered
                     THEN /\ task' = locals @@ [at |-> "idle"]
                          /\ reply' = Failure(NotFound)
                     ELSE /\ task' = locals @@ [at |-> "reread"]
                          /\ reply' = NoReply
    /\ UNCHANGED <<observacion_fotos, serial>>
    /\ UNCHANGED <<cache, now, last, reqvars, loopvars, keyvars, mapvars>>

\* the end of update_observation: return await self.get_observation(...)
\* (line 365)
UpdateReRead(raised) ==
    /\ task.at = "reread"
    /\ task.name = "update"
    /\ issued' = Append(issued, DbCall("observaciones", "select", None,
                                       task.observation_id, raised))
    /\ reply' = get_observation(task.observation_id, raised)
    /\ task' = [task EXCEPT !.at = "idle"]
    /\ UNCHANGED <<observaciones, observacion_fotos, serial, before>>
    /\ UNCHANGED <<cache, now, last, reqvars, loopvars, keyvars, mapvars>>

\* a delete that begins with the row of the observation
delete_observation_row_first(observation_id, raised) ==
    /\ task = Idle
    /\ before' = Tables
    /\ issued' = <<DbCall("observaciones", "delete", None,
                          observation_id, raised)>>
    /\ IF raised
       THEN /\ UNCHANGED observaciones
            /\ task' = [name |-> "delete", at |-> "idle",
                        observation_id |-> observation_id]
            /\ reply' = Failure(Exception)
       ELSE /\ observaciones' = NotEq(observaciones, "id", observation_id)
            /\ task' = [name |-> "delete", at |-> "delete_row",
                        observation_id |-> observation_id]
            /\ reply' = NoReply
    /\ UNCHANGED <<observacion_fotos, serial>>
    /\ UNCHANGED <<cache, now, last, reqvars, loopvars, keyvars, mapvars>>

\* InsectService.delete_observation up to the deletion of the photos
\* (lines 371-375)
delete_observation(observation_id, raised) ==
    /\ task = Idle
    /\ before' = Tables
    /\ issued' = <<DbCall("observacion_fotos", "delete", None,
                          observation_id, raised)>>
    /\ IF raised
       THEN /\ UNCHANGED observacion_fotos
            /\ task' = [name |-> "delete", at |-> "idle",
                        observation_id |-> observation_id]
            /\ reply' = Failure(Exception)
       ELSE /\ observacion_fotos' =
                   NotEq(observacion_fotos, "observacion_id", observation_id)
            /\ task' = [name |-> "delete", at |-> "delete_row",
                        observation_id |-> observation_id]
            /\ reply' = NoReply
    /\ UNCHANGED <<observaciones, serial>>
    /\ UNCHANGED <<cache, now, last, reqvars, loopvars, keyvars, mapvars>>

\* the end of delete_observation: the deletion of the row (lines 377-386)
DeleteRow(raised) ==
    /\ task.at = "delete_row"
    /\ issued' = Append(issued, DbCall("observaciones", "delete", None,
                                       task.observation_id, raised))
    /\ IF raised
       THEN /\ UNCHANGED observaciones
            /\ reply' = Failure(Exception)
       ELSE /\ observaciones' =
                   NotEq(observaciones, "id", task.observation_id)
            /\ reply' =
                   IF Eq(observaciones, "id", task.observation_id) = <<>>
                   THEN Failure(NotFound)
                   ELSE [success |-> TRUE,
                         message |-> "Observation deleted successfully"]
    /\ task' = [task EXCEPT !.at = "idle"]
    /\ UNCHANGED <<observacion_fotos, serial, before>>
    /\ UNCHANGED <<cache, now, last, reqvars, loopvars, keyvars, mapvars>>

\* ---- the photo endpoints (routers/photos.py) ----
\* PhotoCreate.dict() of POST /api/photos: the observation named as a UUID
AddPhotoInputs ==
    {<<Item("observation_id", UUIDValue(id.s)),
       Item("photo_url", Str("b.jpg")),
       Item("description", NoneValue),
       Item("order", NoneValue)>> : id \in ObservationIds}

\* PhotoUpdate.dict(exclude_unset=True)
PhotoUpdateInputs == {<<Item("order", IntValue(3))>>}

\* the identifiers a photo request names here: that of the first row and
\* one that no row has
PhotoIds ==
    {DictGet(observacion_fotos[i], "id") : i \in DOMAIN observacion_fotos \cap {1}}
        \cup {Str("p0")}

\* observacion_fotos.observacion_id refers to observaciones.id, the
\* relation the embedded select of lines 184 and 232 is resolved by: the
\* datastore takes a photo row only for an observation it holds
Refers(db_data) ==
    /\ "observacion_id" \in DictKeys(db_data)
    /\ Eq(observaciones, "id", DictGet(db_data, "observacion_id")) # <<>>

\* an insert the datastore takes whatever observation the row names
add_photo_unchecked(photo_data, how) ==
    /\ task = Idle
    /\ serial < MaxRows
    /\ LET db_data == photo_db_data(photo_data)
           row == NewRow(PhotoColumns, db_data, NewId("p", serial + 1),
                         NoneValue)
       IN /\ before' = Tables
          /\ issued' = <<DbCall("observacion_fotos", "insert", db_data,
                                None, how = "raise")>>
          /\ task' = [name |-> "add_photo", at |-> "idle",
                      photo_data |-> photo_data]
          /\ IF how = "ok"
             THEN /\ observacion_fotos' = Append(observacion_fotos, row)
                  /\ serial' = serial + 1
                  /\ reply' = [success |-> TRUE,
                               photo |-> convert_from_db_format(row)]
             ELSE /\ UNCHANGED <<observacion_fotos, serial>>
                  /\ reply' = Failure(IF how = "raise" THEN Exception
                                      ELSE "Error adding photo")
    /\ UNCHANGED observaciones
    /\ UNCHANGED <<cache, now, last, reqvars, loopvars, keyvars, mapvars>>

\* POST /api/photos: InsectService.add_observation_photo (lines 390-429)
\* on its own; the insert of a row that names no observation held raises
add_photo(photo_data, how) ==
    /\ task = Idle
    /\ serial < MaxRows
    /\ LET db_data == photo_db_data(photo_data)
           row == NewRow(PhotoColumns, db_data, NewId("p", serial + 1),
                         NoneValue)
       IN /\ how = "ok" => Refers(db_data)
          /\ before' = Tables
          /\ issued' = <<DbCall("observacion_fotos", "insert", db_data,
                                None, how = "raise")>>
          /\ task' = [name |-> "add_photo", at |-> "idle",
                      photo_data |-> photo_data]
          /\ IF how = "ok"
             THEN /\ observacion_fotos' = Append(observacion_fotos, row)
                  /\ serial' = serial + 1
                  /\ reply' = [success |-> TRUE,
                               photo |-> convert_from_db_format(row)]
             ELSE /\ UNCHANGED <<observacion_fotos, serial>>
                  /\ reply' = Failure(IF how = "raise" THEN Exception
                                      ELSE "Error adding photo")
    /\ UNCHANGED observaciones
    /\ UNCHANGED <<cache, now, last, reqvars, loopvars, keyvars, mapvars>>

\* PUT /api/photos/{photo_id}: InsectService.update_observation_photo
\* (lines 431-449)
update_observation_photo(photo_id, photo_data, raised) ==
    /\ task = Idle
    /\ LET db_data == convert_to_db_format(photo_data)
           hit == {i \in DOMAIN observacion_fotos :
                      DictGet(observacion_fotos[i], "id") = photo_id}
           patched == [i \in DOMAIN observacion_fotos |->
                          IF i \in hit
                          THEN PatchRow(observacion_fotos[i], db_data,
                                        NoneValue)
                          ELSE observacion_fotos[i]]
       IN /\ before' = Tables
          /\ issued' = <<DbCall("observacion_fotos", "update", db_data,
                                photo_id, raised)>>
          /\ task' = [name |-> "update_photo", at |-> "idle",
                      key |-> photo_id, photo_data |-> photo_data]
          /\ IF raised
             THEN /\ UNCHANGED observacion_fotos
                  /\ reply' = Failure(Exception)
             ELSE /\ observacion_fotos' = patched
                  /\ reply' =
                         IF hit = {} THEN Failure("Photo not found")
                         ELSE [success |-> TRUE,
                               photo |-> convert_from_db_format(
                                             patched[CHOOSE i \in hit : TRUE])]
    /\ UNCHANGED <<observaciones, serial>>
    /\ UNCHANGED <<cache, now, last, reqvars, loopvars, keyvars, mapvars>>

\* DELETE /api/photos/{photo_id}: InsectService.delete_observation_photo
\* (lines 451-462)
delete_observation_photo(photo_id, raised) ==
    /\ task = Idle
    /\ before' = Tables
    /\ issued' = <<DbCall("observacion_fotos", "delete", None, photo_id,
                          raised)>>
    /\ task' = [name |-> "delete_photo", at |-> "idle", key |-> photo_id]
    /\ IF raised
       THEN /\ UNCHANGED observacion_fotos
            /\ reply' = Failure(Exception)
       ELSE /\ observacion_fotos' = NotEq(observacion_fotos, "id", photo_id)
            /\ reply' =
                   IF Eq(observacion_fotos, "id", photo_id) = <<>>
                   THEN Failure("Photo not found")
                   ELSE [success |-> TRUE,
                         message |-> "Photo deleted successfully"]
    /\ UNCHANGED <<observaciones, serial>>
    /\ UNCHANGED <<cache, now, last, reqvars, loopvars, keyvars, mapvars>>

\* a request that only reads: one select, then the return
Read(name, key, response, raised) ==
    /\ task = Idle
    /\ before' = Tables
    /\ issued' = <<DbCall(IF name = "photos" THEN "observacion_fotos"
                          ELSE "observaciones", "select", None, key, raised)>>
    /\ task' = [name |-> name, at |-> "idle", key |-> key]
    /\ reply' = response
    /\ UNCHANGED <<observaciones, observacion_fotos, serial>>
    /\ UNCHANGED <<cache, now, last, reqvars, loopvars, keyvars, mapvars>>

\* GET /api/observations/{observation_id}
ReadObservation(observation_id, raised) ==
    Read("read", observation_id, get_observation(observation_id, raised),
         raised)

\* GET /api/observations/user/{user_id}
ListByUser(user_id, raised) ==
    Read("list", user_id, get_user_observations(user_id, raised), raised)

\* GET /api/photos/observation/{observation_id}
ReadPhotos(observation_id, raised) ==
    Read("photos", observation_id,
         get_observation_photos(observation_id, raised), raised)

\* the handler has returned what the operation gave it and the service
\* takes the next request
Done ==
    /\ task.at = "idle"
    /\ task # Idle
    /\ task' = Idle
    /\ issued' = <<>>
    /\ before' = [observaciones |-> <<>>, observacion_fotos |-> <<>>]
    /\ reply' = NoReply
    /\ UNCHANGED <<observaciones, observacion_fotos, serial>>
    /\ UNCHANGED <<cache, now, last, reqvars, loopvars, keyvars, mapvars>>

\* ---- the responses of the routers ----
\* routers/observations.py and routers/photos.py: the status of the
\* response to the request named, from what the operation returned
\* ("if not result['success']: raise HTTPException(...)")
repository_status(name, answer) ==
    IF answer.success = TRUE
    THEN CASE name \in {"create", "add_photo"} -> 201
           [] name \in {"delete", "delete_photo"} -> 204
           [] OTHER -> 200
    ELSE CASE name \in {"read", "update", "delete", "update_photo",
                        "delete_photo"} -> 404
           [] OTHER -> 400

\* "data.get('results')" is true of the body: R1 and R2 are bodies that
\* list a taxon, the empty object lists none
HasResults(body) == body \in {"R1", "R2"}

\* routers/insects.py: the status of the response to request r once its
\* read operation has ended by returning or by raising
insects_status(r) ==
    IF pc[r] = "failed" THEN 500
    ELSE IF op[r] = "get_species_info" /\ ~HasResults(ret[r]) THEN 404
    ELSE 200

RepoNext ==
    \/ \E loc \in OtherLocations : ExistingRow(loc)
    \/ \E observation_data \in CreateInputs, how \in Outcomes :
           create_observation(observation_data, how)
    \/ \E how \in Outcomes : add_observation_photo(how)
    \/ \E raised \in BOOLEAN : CreateReRead(raised)
    \/ \E observation_id \in ObservationIds, observation_data \in UpdateInputs,
          raised \in BOOLEAN :
           update_observation(observation_id, observation_data, raised)
    \/ \E raised \in BOOLEAN : UpdateReRead(raised)
    \/ \E observation_id \in ObservationIds, raised \in BOOLEAN :
           delete_observation(observation_id, raised)
    \/ \E raised \in BOOLEAN : DeleteRow(raised)
    \/ \E observation_id \in ObservationIds, raised \in BOOLEAN :
           ReadObservation(observation_id, raised)
    \/ \E u \in Users, raised \in BOOLEAN : ListByUser(Str(u), raised)
    \/ \E observation_id \in ObservationIds, raised \in BOOLEAN :
           ReadPhotos(observation_id, raised)
    \/ Done

RepoSpec == Init /\ [][RepoNext]_vars

(***************************************************************************)
(* PhotoSpec: the nine operations of InsectService side by side            *)
(*                                                                         *)
(* The requests of RepoSpec together with those of the photo endpoints,    *)
(* against the same two tables.  What is varied here is which rows exist   *)
(* and which operation meets them; the forms of a stored location are the  *)
(* subject of RepoSpec, so the rows of other clients have no location and  *)
(* the update is the one with the null latitude.                           *)
(***************************************************************************)
NullLatitudeUpdates ==
    {u \in UpdateInputs :
        "latitude" \in DictKeys(u) /\ DictGet(u, "latitude") = NoneValue}

PhotoNext ==
    \/ ExistingRow(NoneValue)
    \/ \E observation_data \in CreateInputs, how \in Outcomes :
           create_observation(observation_data, how)
    \/ \E how \in Outcomes : add_observation_photo(how)
    \/ \E raised \in BOOLEAN : CreateReRead(raised)
    \/ \E observation_id \in ObservationIds,
          observation_data \in NullLatitudeUpdates, raised \in BOOLEAN :
           update_observation(observation_id, observation_data, raised)
    \/ \E raised \in BOOLEAN : UpdateReRead(raised)
    \/ \E observation_id \in ObservationIds, raised \in BOOLEAN :
           delete_observation(observation_id, raised)
    \/ \E raised \in BOOLEAN : DeleteRow(raised)
    \/ \E observation_id \in ObservationIds, raised \in BOOLEAN :
           ReadObservation(observation_id, raised)
    \/ \E u \in Users, raised \in BOOLEAN : ListByUser(Str(u), raised)
    \/ \E observation_id \in ObservationIds, raised \in BOOLEAN :
           ReadPhotos(observation_id, raised)
    \/ \E photo_data \in AddPhotoInputs, how \in Outcomes :
           add_photo(photo_data, how)
    \/ \E photo_id \in PhotoIds, photo_data \in PhotoUpdateInputs,
          raised \in BOOLEAN :
           update_observation_photo(photo_id, photo_data, raised)
    \/ \E photo_id \in PhotoIds, raised \in BOOLEAN :
           delete_observation_photo(photo_id, raised)
    \/ Done

PhotoSpec == Init /\ [][PhotoNext]_vars

(***************************************************************************)
(* Properties of the client, checked under Spec                            *)
(***************************************************************************)
\* request r enters a read operation in this step (key, lookup, test)
LookupStep(r) == pc[r] = "idle" /\ pc'[r] # "idle"

\* request r receives its response and stores it in this step
StoreStep(r) == pc[r] = "awaiting" /\ pc'[r] = "closing"

\* the dict holds an entry for key that has not expired at the current time
Unexpired(key) ==
    key \in DOMAIN cache /\ now - cache[key].timestamp <= ttl_seconds

\* C1: whenever the cache holds an unexpired entry for the key of a read
\* operation, the operation returns the stored value and issues no upstream
\* call, whatever the stored value is.
C1_HitReturnsCached ==
    [][\A r \in Reqs :
          (LookupStep(r) /\ Unexpired(cache_key'[r])) =>
              /\ pc'[r] = "done"
              /\ ret'[r] = cache[cache_key'[r]].value
              /\ calls'[r] = 0]_vars

\* C2: a read operation that missed has issued exactly one upstream call
\* before it stores, stores once, and returns the body it stored; as long as
\* nothing else has touched the entry of its key and the ttl has not
\* elapsed, get of that key yields the body it returned.
C2_MissSequence ==
    \A r \in Reqs :
        /\ pc[r] = "awaiting" =>
              (calls[r] = 1 /\ stores[r] = 0 /\ result[r] = None /\ ret[r] = None)
        /\ pc[r] = "closing" =>
              (calls[r] = 1 /\ stores[r] = 1 /\ result[r] \in Values /\ ret[r] = None)
        /\ (pc[r] = "done" /\ calls[r] # 0) =>
              (calls[r] = 1 /\ stores[r] = 1 /\ result[r] \in Values
                 /\ ret[r] = result[r])
        /\ (pc[r] \in {"closing", "done"} /\ intact[r]) =>
              /\ cache_key[r] \in DOMAIN cache
              /\ cache[cache_key[r]].value = result[r]
              /\ Unexpired(cache_key[r]) =>
                     get(cache, now, cache_key[r]).ret = result[r]

\* a request that missed has returned, and its entry, aged exactly the ttl,
\* still reads back as the body it returned
C2_Witness ==
    \E r \in Reqs :
        /\ pc[r] = "done"
        /\ calls[r] = 1
        /\ intact[r]
        /\ now - cache[cache_key[r]].timestamp = ttl_seconds
        /\ get(cache, now, cache_key[r]).ret = ret[r]

\* C3: a request whose upstream call fails or is cancelled in flight ends
\* with one upstream call issued, no cache.set made and no result; the step
\* in which it fails leaves the dict as it was, and afterwards the request
\* does nothing but end (no retry, no late store).
C3_FailuresNotCached ==
    [][\A r \in Reqs :
          /\ (pc[r] = "awaiting" /\ pc'[r] \in {"failed", "cancelled"}) =>
                /\ cache' = cache
                /\ calls'[r] = 1
                /\ stores'[r] = 0
                /\ result'[r] = None
                /\ ret'[r] = None
          /\ pc[r] \in {"failed", "cancelled"} =>
                /\ pc'[r] \in {pc[r], "idle"}
                /\ calls'[r] \in {calls[r], 0}
                /\ stores'[r] = 0
                /\ pc'[r] = pc[r] => cache_key'[r] = cache_key[r]]_vars

\* one request has failed and another was cancelled while the dict holds
\* entries, none of them under the failed request's key
C3_Witness ==
    \E r, q \in Reqs :
        /\ pc[r] = "failed"
        /\ pc[q] = "cancelled"
        /\ cache # EmptyCache
        /\ cache_key[r] \notin DOMAIN cache
        /\ cache_key[q] \notin DOMAIN cache

\* C4: a search that finds an entry of its key stored no longer than the
\* ttl ago returns that entry's value without an upstream call; a search
\* that finds no entry, or one stored longer ago, issues one upstream call,
\* and its store stamps the result with the current time.
C4_TtlScenario ==
    [][\A r \in Reqs :
          /\ (LookupStep(r) /\ op'[r] = "search_observations") =>
                IF Unexpired(cache_key'[r])
                THEN /\ pc'[r] = "done"
                     /\ ret'[r] = cache[cache_key'[r]].value
                     /\ calls'[r] = 0
                     /\ cache' = cache
                ELSE /\ pc'[r] = "awaiting"
                     /\ calls'[r] = 1
                     /\ cache_key'[r] \notin DOMAIN cache'
          /\ (StoreStep(r) /\ op[r] = "search_observations") =>
                cache'[cache_key[r]] = Entry(result'[r], now)]_vars

\* C5: every store puts the storing request's own body under its key, over
\* whatever another request stored there before, and changes no other key;
\* a request that missed returns the body of its own upstream call.
C5_LastWriteWins ==
    [][\A r \in Reqs :
          /\ StoreStep(r) =>
                cache' = [k \in (DOMAIN cache) \cup {cache_key[r]} |->
                             IF k = cache_key[r]
                             THEN Entry(result'[r], now) ELSE cache[k]]
          /\ (pc[r] = "closing" /\ pc'[r] = "done") => ret'[r] = result[r]]_vars

\* two requests in progress at once have both called upstream for the same
\* key and both stored; the entry holds the body of the later store
C5_Witness ==
    \E r, q \in Reqs :
        /\ r # q
        /\ cache_key[r] = cache_key[q]
        /\ pc[r] = "closing" /\ pc[q] = "closing"
        /\ calls[r] = 1 /\ calls[q] = 1
        /\ stores[r] = 1 /\ stores[q] = 1
        /\ result[r] = "R1" /\ result[q] = "R2"
        /\ ~intact[r] /\ intact[q]
        /\ cache[cache_key[q]].value = "R2"
        /\ get_size(cache) = 1

(***************************************************************************)
(* Properties of the cache, checked under CacheSpec                        *)
(***************************************************************************)
\* the entry of key in dict c is older than the ttl at time t
Expired(c, t, key) == key \in DOMAIN c /\ t - c[key].timestamp > ttl_seconds

\* C6: set(k, v) followed by get(k), with no other call in between and no
\* more than the ttl elapsed since the set, returns v.
C6_SetThenGet ==
    (last.op = "set" /\ now - last.at <= ttl_seconds)
        => get(cache, now, last.key).ret = last.value

\* a set that overwrote another value, read back when aged exactly the ttl
C6_Witness ==
    /\ last.op = "set"
    /\ last.key \in DOMAIN last.pre
    /\ last.pre[last.key].value # last.value
    /\ now - last.at = ttl_seconds
    /\ get(cache, now, last.key).ret = last.value

\* C7: get(k) returns the stored value exactly when an entry for k exists
\* and now - storedAt <= ttl (age equal to the ttl included); in every other
\* case it returns None.
C7_Visibility ==
    last.op = "get" =>
        IF last.key \in DOMAIN last.pre
              /\ last.at - last.pre[last.key].timestamp <= ttl_seconds
        THEN last.ret = last.pre[last.key].value /\ last.ret # None
        ELSE last.ret = None

\* a get of an entry aged exactly the ttl, which returned its value
C7_Witness ==
    /\ last.op = "get"
    /\ last.key \in DOMAIN last.pre
    /\ last.at - last.pre[last.key].timestamp = ttl_seconds
    /\ last.ret = last.pre[last.key].value

\* C8: a get of an expired entry returns None and deletes that entry and
\* no other, so the size drops by one; an expired entry that no get or
\* remove of its key and no clear has touched is still in the dict, and
\* get_size and the stats response count it.
C8_LazyEviction ==
    /\ (last.op = "get" /\ Expired(last.pre, last.at, last.key)) =>
          /\ last.ret = None
          /\ DOMAIN cache = (DOMAIN last.pre) \ {last.key}
          /\ \A k \in DOMAIN cache : cache[k] = last.pre[k]
          /\ get_size(cache) = get_size(last.pre) - 1
    /\ \A k \in DOMAIN last.pre :
          ( /\ Expired(last.pre, last.at, k)
            /\ ~(last.op \in {"get", "remove"} /\ last.key = k)
            /\ last.op # "clear" )
          => k \in DOMAIN cache
    /\ get_size(cache) =
          Cardinality({k \in DOMAIN cache : Expired(cache, now, k)})
          + Cardinality({k \in DOMAIN cache : ~Expired(cache, now, k)})
    /\ get_cache_stats(cache).total_items = Cardinality(DOMAIN cache)

\* a get evicted an expired entry and left a second entry in place
C8_Witness ==
    /\ last.op = "get"
    /\ Expired(last.pre, last.at, last.key)
    /\ last.ret = None
    /\ get_size(last.pre) = 2
    /\ get_size(cache) = 1
    /\ last.key \notin DOMAIN cache

\* C9: set(k, v2) replaces whatever entry k had, expired or not, with v2
\* stamped at the current time, so the entry lives for the ttl counted from
\* this set; the size is unchanged by an overwrite and grows by one for a
\* new key.
C9_Overwrite ==
    last.op = "set" =>
        /\ last.key \in DOMAIN cache
        /\ cache[last.key] = Entry(last.value, last.at)
        /\ \A t \in last.at .. (last.at + ttl_seconds + 1) :
              get(cache, t, last.key).ret =
                  IF t - last.at <= ttl_seconds THEN last.value ELSE None
        /\ get_size(cache) =
              IF last.key \in DOMAIN last.pre
              THEN get_size(last.pre) ELSE get_size(last.pre) + 1

\* a set at a later time over an entry holding another value
C9_Witness ==
    /\ last.op = "set"
    /\ last.key \in DOMAIN last.pre
    /\ last.pre[last.key].value # last.value
    /\ last.pre[last.key].timestamp < last.at
    /\ cache[last.key] = Entry(last.value, last.at)
    /\ get_size(cache) = get_size(last.pre)

\* C10: an entry leaves the dict only by a get of its key after its expiry,
\* a remove of its key, or clear; get, set and remove of another key leave
\* it as it was, set never drops a key, remove of an unknown key changes
\* nothing, and the passing of time alone changes nothing.
C10_OnlyExpiryRemoves ==
    /\ \A k \in (DOMAIN last.pre) \ (DOMAIN cache) :
          \/ last.op = "clear"
          \/ last.op = "remove" /\ last.key = k
          \/ last.op = "get" /\ last.key = k /\ Expired(last.pre, last.at, k)
    /\ \A k \in DOMAIN last.pre :
          (last.op \in {"get", "set", "remove"} /\ last.key # k)
              => (k \in DOMAIN cache /\ cache[k] = last.pre[k])
    /\ (last.op = "set") => DOMAIN cache = (DOMAIN last.pre) \cup {last.key}
    /\ (last.op = "remove" /\ last.key \notin DOMAIN last.pre)
          => cache = last.pre

\* every key is cached at once, one of the entries already expired
C10_Witness ==
    /\ last.op = "set"
    /\ DOMAIN cache = Keys
    /\ last.key \notin DOMAIN last.pre
    /\ \E k \in Keys : k # last.key /\ Expired(cache, now, k)

(***************************************************************************)
(* Properties of the administration endpoints, checked under AdminSpec     *)
(***************************************************************************)
\* the step is clear_cache: the dict changes and no request moves
ClearStep == cache' # cache /\ pc' = pc

\* C11: the administration endpoints work on the dict the client uses:
\* a stats response reports the number of entries of that dict and the
\* ttl it was constructed with; after clear the size is 0 and get returns
\* None for every key; and a read operation entered while a key has no
\* entry (as after clear) issues an upstream call.
C11_AdminSurface ==
    [][ /\ (last'.op = "stats" /\ last' # last) =>
               /\ last'.ret.total_items = Cardinality(DOMAIN cache)
               /\ last'.ret.ttl_seconds = ttl_seconds
               /\ cache' = cache
        /\ ClearStep =>
               /\ get_size(cache') = 0
               /\ \A k \in Keys : get(cache', now', k).ret = None
        /\ \A r \in Reqs :
               (LookupStep(r) /\ cache_key'[r] \notin DOMAIN cache) =>
                   /\ pc'[r] = "awaiting"
                   /\ calls'[r] = 1 ]_vars

\* request 1 stored a body under a key, stats reported the one entry,
\* the dict was cleared, and request 2 asking for that key has an
\* upstream call in flight
C11_Witness ==
    /\ pc[1] = "done" /\ stores[1] = 1 /\ ~intact[1]
    /\ last.op = "stats" /\ last.ret.total_items = 1
    /\ cache = EmptyCache
    /\ pc[2] = "awaiting" /\ calls[2] = 1
    /\ cache_key[2] = cache_key[1]

(***************************************************************************)
(* Properties of the handlers on the event loop, checked under LoopSpec    *)
(***************************************************************************)
\* request r's cache method returns or raises in this step
MethodEnds(r) == line[r] \in Methods \cup {"get_read", "get_del", "remove_del"}
                 /\ line'[r] = "await"

\* what the method of request r does to dict c as one indivisible call
Atomic(r, c) ==
    CASE call[r].op = "get" -> get(c, now, call[r].key)
      [] call[r].op = "set" ->
             [ret |-> None, cache |-> set(c, now, call[r].key, call[r].value)]
      [] call[r].op = "remove" ->
             [ret |-> None, cache |-> remove(c, call[r].key)]
      [] call[r].op = "clear" -> [ret |-> None, cache |-> clear(c)]

\* C12: every cache method takes effect as one indivisible call: from the
\* statement it is entered at to its return nobody else has touched the
\* dict, it returns what the method returns for the dict it was entered
\* with and leaves the dict that method leaves, and it never raises
\* KeyError; so the dict is at any time the result of the completed calls
\* in the order of their completion.
C12_AtomicMethods ==
    [][\A r \in Reqs :
          /\ (line[r] \in {"get_read", "get_del", "remove_del"}) =>
                 Dict(r) = snap[r]
          /\ MethodEnds(r) =>
                 /\ Dict(r) = snap[r]
                 /\ outcome'[r] = Atomic(r, snap[r]).ret
                 /\ caches'[service[r]] = Atomic(r, snap[r]).cache
                 /\ outcome'[r] # KeyError ]_vars

\* request 1 is inside get, past the expiry test and before the delete,
\* while request 2, which has stored under the same key, stands at its
\* await and is resumed only once request 1 has left the method
C12_Witness ==
    /\ line[1] = "get_del"
    /\ line[2] = "await"
    /\ call[2].op = "set"
    /\ call[2].key = call[1].key

\* C14: the service and its cache are constructed at most once: every
\* call of get_inaturalist_service returns the first instance, whichever
\* requests make their first calls side by side, so all requests work on
\* one dict and read what the others have stored in it.
C14_Singleton ==
    /\ constructed <= 1
    /\ Len(caches) = constructed
    /\ inaturalist_service = constructed
    /\ \A r \in Reqs :
           /\ service[r] \in {0, 1}
           /\ line[r] \in {"call", "await"} \cup Methods => service[r] = 1
    /\ \A r, q \in Reqs :
           (service[r] # 0 /\ service[q] # 0) => Dict(r) = Dict(q)

\* both requests went through the provider; request 1 stored a body and
\* request 2, entered after it, got that body from get
C14_Witness ==
    /\ constructed = 1
    /\ service[1] = 1 /\ service[2] = 1
    /\ call[1].op = "set" /\ line[1] = "await"
    /\ call[2].op = "get" /\ line[2] = "await"
    /\ call[2].key = call[1].key
    /\ outcome[2] = call[1].value
    /\ snap[2] # EmptyCache

(***************************************************************************)
(* Properties of the cache keys, checked under KeySpec                     *)
(***************************************************************************)
\* two rounded coordinates are the same number (-0.0 = 0.0 in Python)
NumEq(f, g) == f.mag = g.mag /\ (f.neg = g.neg \/ f.mag = 0)

\* two calls of one operation with parameters equal after rounding
SameAfterRounding(a, b) ==
    /\ a.op = b.op
    /\ a.query = b.query
    /\ a.op = "get_species_info" => a.taxon_id = b.taxon_id
    /\ NumEq(round4(a.lat), round4(b.lat))
    /\ NumEq(round4(a.lng), round4(b.lng))
    /\ a.locale = b.locale
    /\ a.radius = b.radius
    /\ a.per_page = b.per_page
    /\ a.page = b.page

\* C13: two calls of the same operation build the same key when their
\* parameters are equal once latitude and longitude are rounded to four
\* decimals, and different keys when a rounded coordinate, the locale,
\* the radius, the page or the page size differs.
C13_KeyStability ==
    \A i, j \in Calls :
        (built[i].op # "none" /\ built[j].op = built[i].op) =>
            (SameAfterRounding(built[i], built[j])
                 <=> built[i].key = built[j].key)

(***************************************************************************)
(* Progress of the client, checked under LiveSpec                          *)
(***************************************************************************)
\* C15: no read operation blocks for ever: a request that has issued its
\* upstream call eventually ends, with a result returned or a failure
\* propagated, because the call is ended by its timeout if by nothing else.
C15_NoIndefiniteBlock ==
    \A r \in Reqs : (pc[r] \in {"awaiting", "closing"}) ~> (pc[r] \in Ended)

\* a request whose upstream call was ended by a failure such as the
\* timeout, next to a request that returned its result
C15_Witness ==
    /\ pc[1] = "failed" /\ calls[1] = 1
    /\ pc[2] = "done" /\ calls[2] = 1 /\ ret[2] = result[2]

(***************************************************************************)
(* Properties of the field mapper, checked under MapSpec                   *)
(***************************************************************************)
\* the record has both coordinates and both are floats
ValidCoordinates(d) ==
    /\ "latitude" \in DictKeys(d) /\ DictGet(d, "latitude").t = "float"
    /\ "longitude" \in DictKeys(d) /\ DictGet(d, "longitude").t = "float"

\* C16: an external record with valid numeric coordinates that is mapped
\* to its stored form and back has the latitude and longitude it had, and
\* every other field it had under the same name with the same value.
C16_RoundTrip ==
    (stage = "round_trip" /\ ValidCoordinates(given)) =>
        /\ {"latitude", "longitude"} \subseteq DictKeys(returned)
        /\ DictGet(returned, "latitude").t = "float"
        /\ DictGet(returned, "longitude").t = "float"
        /\ NumEqual(DictGet(returned, "latitude"), DictGet(given, "latitude"))
        /\ NumEqual(DictGet(returned, "longitude"), DictGet(given, "longitude"))
        /\ \A k \in DictKeys(given) \ {"latitude", "longitude"} :
               /\ k \in DictKeys(returned)
               /\ DictGet(returned, k) = DictGet(given, k)

\* a record with a renamed field, a field outside the table and the
\* coordinates (-0.5, -79.5) has gone to its stored form and back
C16_Witness ==
    /\ stage = "round_trip"
    /\ {"scientific_name", "id", "latitude", "longitude"} = DictKeys(given)
    /\ DictGet(given, "latitude") = Float(TRUE, 5000)
    /\ DictGet(given, "longitude") = Float(TRUE, 795000)
    /\ DictGet(returned, "latitude") = Float(TRUE, 5000)
    /\ DictGet(returned, "scientific_name") = Str("Danaus plexippus")

\* the text is a point literal POINT(<number> <number>)
IsPointLiteral(cs) ==
    /\ StartsWith(cs, POINT_OPEN)
    /\ cs[Len(cs)] = ")"
    /\ LET inner == SubSeq(cs, Len(POINT_OPEN) + 1, Len(cs) - 1)
           coords == split(inner)
       IN /\ \A i \in DOMAIN inner : inner[i] \notin {"(", ")"}
          /\ Len(coords) = 2
          /\ float_of_text(coords[1]).ok
          /\ float_of_text(coords[2]).ok

\* the location the mapper stores for the record given
StoredLocation == DictGet(convert_to_db_format(given), "ubicacion")

\* C17: the stored location of a record with numeric coordinates is the
\* text POINT(<lng> <lat>), longitude first; decoding it gives back the
\* latitude and longitude, negative and zero ones included; and a stored
\* text that is not such a literal is never decoded into coordinates: the
\* mapper returns without them or with the defaults.
C17_GeoCodec ==
    /\ (stage \in {"to_db", "round_trip"} /\ ValidCoordinates(given)) =>
           /\ StoredLocation.t = "text"
           /\ StoredLocation.chars =
                  POINT_OPEN \o float_str(DictGet(given, "longitude")) \o <<" ">>
                     \o float_str(DictGet(given, "latitude")) \o <<")">>
           /\ IsPointLiteral(StoredLocation.chars)
           /\ decode(StoredLocation) =
                  Decoded(DictGet(given, "longitude"), DictGet(given, "latitude"))
    /\ (/\ stage = "from_db"
        /\ "ubicacion" \in DictKeys(given)
        /\ DictGet(given, "ubicacion").t = "text"
        /\ ~IsPointLiteral(DictGet(given, "ubicacion").chars)) =>
           /\ IsTruthy(DictGet(given, "ubicacion")) =>
                  decode(DictGet(given, "ubicacion")).status # "decoded"
           /\ \A k \in {"latitude", "longitude"} \cap DictKeys(returned) :
                  DictGet(returned, k) = Float(FALSE, 0)

\* what the claim says of the generic pass over input d with table m,
\* whose output is g
GenericPassRule(m, d, g) ==
    \A k \in DictKeys(d) :
        IF k \in DOMAIN m
        THEN IF m[k] # None
             THEN m[k] \in DictKeys(g) /\ DictGet(g, m[k]) = DictGet(d, k)
             ELSE k \notin DictKeys(g)
        ELSE k \in DictKeys(g) /\ DictGet(g, k) = DictGet(d, k)

\* every item of the generic pass is in what the mapper returns, but for
\* the coordinates the location step assigns afterwards
KeptIn(g, res) ==
    \A k \in DictKeys(g) \ {"ubicacion", "latitude", "longitude"} :
        k \in DictKeys(res) /\ DictGet(res, k) = DictGet(g, k)

\* C18: in both directions the generic pass renames every key that the
\* name table maps to a name, value unchanged; leaves out every key the
\* table maps to None (latitude, longitude; ubicacion); and copies every
\* key that is not in the table under its own name, value unchanged.
C18_GenericPass ==
    /\ stage \in {"to_db", "round_trip"} =>
           LET g == GenericPass(to_db_mapping, given, 1, EmptyDict)
           IN /\ GenericPassRule(to_db_mapping, given, g)
              /\ KeptIn(g, convert_to_db_format(given))
              /\ {"latitude", "longitude"} \cap DictKeys(g) = {}
    /\ stage = "to_db" =>
           KeptIn(GenericPass(to_db_mapping, given, 1, EmptyDict), returned)
    /\ stage = "from_db" =>
           LET g == GenericPass(from_db_mapping, given, 1, EmptyDict)
           IN /\ GenericPassRule(from_db_mapping, given, g)
              /\ KeptIn(g, returned)
              /\ "ubicacion" \notin DictKeys(g)
    /\ stage = "round_trip" =>
           LET d == convert_to_db_format(given)
               g == GenericPass(from_db_mapping, d, 1, EmptyDict)
           IN /\ GenericPassRule(from_db_mapping, d, g)
              /\ KeptIn(g, returned)
              /\ "ubicacion" \notin DictKeys(g)

\* a stored row with a renamed column, the location column and two
\* columns outside the table has been mapped to its external form
C18_Witness ==
    /\ stage = "from_db"
    /\ DictKeys(given) = {"nombre_cientifico", "ubicacion", "id", "created_at"}
    /\ IsTruthy(DictGet(given, "ubicacion"))
    /\ "scientific_name" \in DictKeys(returned)
    /\ "id" \in DictKeys(returned)
    /\ "ubicacion" \notin DictKeys(returned)
    /\ "nombre_cientifico" \notin DictKeys(returned)

\* C19: the stored form has the encoded location under "ubicacion" exactly
\* when the record given has both a latitude and a longitude key, and it
\* never has a latitude or a longitude key of its own.
C19_LocationInserted ==
    stage = "to_db" =>
        /\ ("ubicacion" \in DictKeys(returned))
               <=> {"latitude", "longitude"} \subseteq DictKeys(given)
        /\ "ubicacion" \in DictKeys(returned) =>
               IsPointLiteral(DictGet(returned, "ubicacion").chars)
        /\ {"latitude", "longitude"} \cap DictKeys(returned) = {}

\* the stored value has one of the three shapes and its numbers are floats
Decodable(v) ==
    CASE v.t = "text" -> IsPointLiteral(v.chars)
      [] v.t = "point" -> v.x.t = "float" /\ v.y.t = "float"
      [] v.t = "geojson" ->
             /\ Len(v.coordinates) = 2
             /\ \A i \in DOMAIN v.coordinates : v.coordinates[i].t = "float"
      [] OTHER -> FALSE

\* C20: whenever the stored row has a location value (one that is not
\* None or empty), the external record has both latitude and longitude,
\* and they are both 0.0 when the value has none of the three shapes or
\* its numbers do not parse.
C20_LocationDecoded ==
    (/\ stage = "from_db"
     /\ "ubicacion" \in DictKeys(given)
     /\ IsTruthy(DictGet(given, "ubicacion"))) =>
        /\ {"latitude", "longitude"} \subseteq DictKeys(returned)
        /\ ~Decodable(DictGet(given, "ubicacion")) =>
               /\ DictGet(returned, "latitude") = Float(FALSE, 0)
               /\ DictGet(returned, "longitude") = Float(FALSE, 0)

(***************************************************************************)
(* Properties of the observation and photo operations, checked under       *)
(* RepoSpec                                                                *)
(***************************************************************************)
\* the operation has returned
Returned == task.at = "idle" /\ reply # NoReply

\* the writes among the datastore calls issued
Writes == {i \in DOMAIN issued : issued[i].verb \in {"insert", "update"}}

\* a coordinate of the payload is null or no number
MalformedCoordinates(d) ==
    \E k \in {"latitude", "longitude"} :
        k \in DictKeys(d) /\ ~to_float(DictGet(d, k)).ok

\* C21: a create or update whose payload has a malformed coordinate (null
\* or non-numeric) issues no insert and no update: the write is skipped,
\* not sent with the remaining fields and no location.
C21_ValidationFailure ==
    task.name \in {"create", "update"}
        /\ MalformedCoordinates(task.observation_data)
    => Writes = {}

\* the photo inserts among the datastore calls issued
PhotoInserts ==
    {i \in DOMAIN issued : /\ issued[i].table = "observacion_fotos"
                           /\ issued[i].verb = "insert"}

\* the insert of the observation gave back a row with its identifier
Inserted == "row" \in DOMAIN task

\* C22: in create the first datastore call is the insert of the
\* observation row; a photo insert is issued only after that insert has
\* returned a row, and carries the identifier of that row, which the table
\* holds, as observacion_id; when the insert raised or returned no row, no
\* photo insert is issued and create returns a failure.
C22_CreateOrdering ==
    task.name = "create" =>
        /\ issued[1].table = "observaciones" /\ issued[1].verb = "insert"
        /\ \A i \in PhotoInserts :
               /\ i > 1
               /\ Inserted
               /\ ~issued[1].raised
               /\ Eq(observaciones, "id", DictGet(task.row, "id")) # <<>>
               /\ "observacion_id" \in DictKeys(issued[i].payload)
               /\ DictGet(issued[i].payload, "observacion_id")
                      = DictGet(task.row, "id")
        /\ ~Inserted => /\ PhotoInserts = {}
                        /\ reply.success = FALSE
                        /\ observaciones = before.observaciones

\* a create with two photos has returned: both inserts were issued
C22_Witness ==
    /\ task.name = "create"
    /\ Returned
    /\ reply.success = TRUE
    /\ Cardinality(PhotoInserts) = 2

\* the order the request gives for the photo at position i, None when the
\* key is absent or null
Supplied(i) ==
    IF "order" \in DictKeys(task.photos[i])
    THEN DictGet(task.photos[i], "order")
    ELSE NoneValue

\* C23: the photo insert of create for the photo at position i (from 1)
\* writes as orden the order the request gives for it, and i when the
\* request gives none (the key absent, or null as the create endpoint
\* passes it).
C23_PhotoOrder ==
    task.name = "create" =>
        \A k \in PhotoInserts :
            LET i == k - 1
            IN /\ "orden" \in DictKeys(issued[k].payload)
               /\ DictGet(issued[k].payload, "orden")
                      = IF Supplied(i) # NoneValue THEN Supplied(i)
                        ELSE IntValue(i)

\* the photo rows the table holds for the observation of the create, in
\* the order they were inserted
PhotosStored == Eq(observacion_fotos, "observacion_id", DictGet(task.row, "id"))

C25_CreateCoordinates ==
    task.name = "create" /\ Returned /\ reply.success = TRUE =>
        /\ {"latitude", "longitude"} \subseteq DictKeys(reply.observation)
        /\ ~Decodable(DictGet(task.row, "ubicacion")) =>
               /\ NumEqual(DictGet(reply.observation, "latitude"),
                           task.original_latitude)
               /\ NumEqual(DictGet(reply.observation, "longitude"),
                           task.original_longitude)

\* the rows of observaciones a read names
RowsRead == Eq(observaciones, "id", task.key)

\* C26: get_observation of an identifier no row has returns a failure,
\* the not-found failure when the select did not raise, and never an
\* observation; of an identifier a row has, it returns (unless the select
\* raises) success with latitude and longitude, which are both 0.0 when
\* the location of the row is missing or cannot be decoded.
C26_Read ==
    task.name = "read" /\ Returned =>
        /\ RowsRead = <<>> =>
               /\ reply.success = FALSE
               /\ ~issued[1].raised => reply.error = NotFound
        /\ RowsRead # <<>> /\ ~issued[1].raised =>
               /\ reply.success = TRUE
               /\ {"latitude", "longitude"}
                      \subseteq DictKeys(reply.observation)
               /\ ~Decodable(DictGet(RowsRead[1], "ubicacion")) =>
                      /\ DictGet(reply.observation, "latitude") = Zero
                      /\ DictGet(reply.observation, "longitude") = Zero

\* the columns the fields of a request translate to: the storage name of
\* a field of the table, the name itself of any other field, and the
\* location for the coordinates
Translations(d) ==
    {to_db_mapping[k] : k \in {f \in DictKeys(d) \cap DOMAIN to_db_mapping :
                                  to_db_mapping[f] # None}}
        \cup (DictKeys(d) \ DOMAIN to_db_mapping)
        \cup (IF {"latitude", "longitude"} \subseteq DictKeys(d)
              THEN {"ubicacion"} ELSE {})

\* C27: the update handed to the datastore names only columns that
\* translate fields of the request; after it every row has, in every
\* column that translates no field of the request, the value it had
\* before, rows of other identifiers and the photo rows are as before, and
\* no row is added or removed.
C27_PartialUpdate ==
    task.name = "update" =>
        /\ DictKeys(issued[1].payload) \subseteq Translations(task.observation_data)
        /\ Len(observaciones) = Len(before.observaciones)
        /\ observacion_fotos = before.observacion_fotos
        /\ \A i \in DOMAIN observaciones :
               LET row == observaciones[i]
                   old == before.observaciones[i]
               IN /\ DictKeys(row) = DictKeys(old)
                  /\ DictGet(row, "id") # task.observation_id => row = old
                  /\ \A c \in DictKeys(row) \ Translations(task.observation_data) :
                         DictGet(row, c) = DictGet(old, c)

\* an update of the description alone has returned: the description of
\* the row has changed and its location, not null, is as before
C27_Witness ==
    /\ task.name = "update"
    /\ Returned
    /\ reply.success = TRUE
    /\ DictKeys(task.observation_data) = {"description"}
    /\ \E i \in DOMAIN observaciones :
           /\ DictGet(observaciones[i], "id") = task.observation_id
           /\ DictGet(before.observaciones[i], "descripcion") = NoneValue
           /\ DictGet(observaciones[i], "descripcion") = Str("on milkweed")
           /\ DictGet(observaciones[i], "ubicacion") # NoneValue
           /\ DictGet(reply.observation, "description") = Str("on milkweed")

\* the delete calls issued on a table
Deletes(table) ==
    {i \in DOMAIN issued : issued[i].table = table /\ issued[i].verb = "delete"}

\* C28: delete issues the deletion of the photo rows of the identifier
\* before the deletion of the observation row, and no deletion of the row
\* without it; when no row has the identifier, the two tables stay as they
\* were and delete returns the not-found failure (a failure in any case,
\* should a call raise).
C28_DeleteOrdering ==
    task.name = "delete" =>
        /\ \A i \in DOMAIN issued : issued[i].key = task.observation_id
        /\ \A j \in Deletes("observaciones") :
               \E i \in Deletes("observacion_fotos") :
                   i < j /\ ~issued[i].raised
        /\ Eq(before.observaciones, "id", task.observation_id) = <<>> =>
               /\ Tables = before
               /\ Returned => /\ reply.success = FALSE
                              /\ ~issued[Len(issued)].raised
                                     => reply.error = NotFound

\* a delete of an observation that had photos has returned success, both
\* deletions issued
C28_Witness ==
    /\ task.name = "delete"
    /\ Returned
    /\ reply.success = TRUE
    /\ Eq(before.observacion_fotos, "observacion_id", task.observation_id)
           # <<>>
    /\ Deletes("observacion_fotos") = {1}
    /\ Deletes("observaciones") = {2}

\* a delete has returned success
Deleted == task.name = "delete" /\ Returned /\ reply.success = TRUE

\* the observations of a list that have the identifier
Listed(observations, id) ==
    {i \in DOMAIN observations : DictGet(observations[i], "id") = id}

\* what holds of the tables once the observation id is deleted: the reads
\* do not find it, and the rows of other identifiers are as before
Gone(id) ==
    /\ get_observation(id, FALSE) = Failure(NotFound)
    /\ get_observation_photos(id, FALSE)
           = [success |-> TRUE, photos |-> <<>>, total |-> 0]
    /\ \A u \in Users :
           Listed(get_user_observations(Str(u), FALSE).observations, id) = {}
    /\ observaciones = NotEq(before.observaciones, "id", id)
    /\ observacion_fotos = NotEq(before.observacion_fotos, "observacion_id", id)

\* C29: when delete returns success, the read of the identifier gives
\* not-found, the photo lookup for it an empty list, the list of any user
\* (the owner's too) does not include it, and the rows of other
\* identifiers in both tables are as they were before the delete.
C29_CascadeDelete == Deleted => Gone(task.observation_id)

\* an observation with photos has been deleted while the tables keep
\* another observation and a photo of it
C29_Witness ==
    /\ Deleted
    /\ Eq(before.observaciones, "id", task.observation_id) # <<>>
    /\ Eq(before.observacion_fotos, "observacion_id", task.observation_id)
           # <<>>
    /\ observaciones # <<>>
    /\ observacion_fotos # <<>>

\* the rows of observaciones a list asks for
RowsListed == Eq(observaciones, "user_id", task.key)

\* C30: get_user_observations, its select not raising, returns success
\* with one observation for each row stored for the user and no other, in
\* the order of the rows; each has the photos of its row, mapped, and
\* latitude and longitude, which are 0.0 when the location of the row is
\* missing or cannot be decoded; total is the number of observations; for
\* a user without rows the result is success with the empty list and
\* total 0.
C30_ListByUser ==
    task.name = "list" /\ Returned /\ ~issued[1].raised =>
        /\ reply.success = TRUE
        /\ reply.total = Len(reply.observations)
        /\ Len(reply.observations) = Len(RowsListed)
        /\ \A i \in DOMAIN RowsListed :
               LET listed == reply.observations[i]
                   fotos == Eq(observacion_fotos, "observacion_id",
                               DictGet(RowsListed[i], "id"))
               IN /\ DictGet(listed, "id") = DictGet(RowsListed[i], "id")
                  /\ DictGet(listed, "user_id") = task.key
                  /\ DictGet(listed, "photos")
                         = ListValue([j \in DOMAIN fotos |->
                                         convert_from_db_format(fotos[j])])
                  /\ {"latitude", "longitude"} \subseteq DictKeys(listed)
                  /\ ~Decodable(DictGet(RowsListed[i], "ubicacion")) =>
                         /\ DictGet(listed, "latitude") = Zero
                         /\ DictGet(listed, "longitude") = Zero
        /\ RowsListed = <<>> =>
               reply = [success |-> TRUE, observations |-> <<>>, total |-> 0]

\* a list has returned one observation, with a photo and a location that
\* cannot be decoded, while the table holds a row of another user
C30_Witness ==
    /\ task.name = "list"
    /\ Returned
    /\ reply.success = TRUE
    /\ reply.total = 1
    /\ Len(observaciones) = 2
    /\ DictGet(reply.observations[1], "photos").items # <<>>
    /\ DictGet(RowsListed[1], "ubicacion") = HexForm
    /\ DictGet(reply.observations[1], "latitude") = Zero

\* the status of the response to the repository request that has returned
Status == repository_status(task.name, reply)
ClientError(status) == status \in 400..499
ServerError(status) == status \in 500..599

\* the request names an observation or a photo that no row had
NamesMissing ==
    \/ /\ task.name = "read"
       /\ Eq(before.observaciones, "id", task.key) = <<>>
    \/ /\ task.name \in {"update", "delete"}
       /\ Eq(before.observaciones, "id", task.observation_id) = <<>>
    \/ /\ task.name \in {"update_photo", "delete_photo"}
       /\ Eq(before.observacion_fotos, "id", task.key) = <<>>

\* a read or a list, its select not raising, met a row whose location
\* cannot be decoded
MetUndecodable ==
    /\ task.name \in {"read", "list"}
    /\ ~issued[1].raised
    /\ \E i \in DOMAIN observaciones :
           /\ DictGet(observaciones[i],
                      IF task.name = "read" THEN "id" ELSE "user_id")
                  = task.key
           /\ ~Decodable(DictGet(observaciones[i], "ubicacion"))

\* a photo insert of a create failed after the observation was inserted
PhotoInsertFailed ==
    /\ task.name = "create"
    /\ Inserted
    /\ Len(task.created_photos) < Len(task.photos)

\* the endpoints of the upstream client: a failed upstream call gives a
\* server error, a taxon the upstream does not list a client error
UpstreamMapping ==
    \A r \in Reqs :
        /\ pc[r] = "failed" => ServerError(insects_status(r))
        /\ (pc[r] = "done" /\ op[r] = "get_species_info"
                /\ ~HasResults(ret[r])) => ClientError(insects_status(r))

\* the endpoints of the repository, validation apart
RepositoryMapping ==
    Returned =>
        /\ NamesMissing => ClientError(Status)
        /\ MetUndecodable => Status < 400
        /\ PhotoInsertFailed => Status < 400

\* C31: a request naming an observation, photo or taxon that does not
\* exist and a request with malformed coordinates get a 4xx response; a
\* failed upstream call gets a 5xx response; a stored location that cannot
\* be decoded and a photo insert that fails during create get no error
\* response.
C31_ErrorMapping ==
    /\ UpstreamMapping
    /\ RepositoryMapping
    /\ (Returned /\ task.name \in {"create", "update"}
            /\ MalformedCoordinates(task.observation_data))
           => ClientError(Status)

\* the observations of the result of a read or a list, each with its row
Answered ==
    IF task.name = "read"
    THEN {<<reply.observation, RowsRead[1]>>}
    ELSE {<<reply.observations[i], RowsListed[i]>> :
              i \in DOMAIN reply.observations}

\* the photo list of the observation has one element for each photo row
\* stored for the row, in their order, each the mapping of its row
MappedElementwise(observation, row) ==
    LET fotos == Eq(observacion_fotos, "observacion_id", DictGet(row, "id"))
    IN DictGet(observation, "photos")
           = ListValue([j \in DOMAIN fotos |->
                           convert_from_db_format(fotos[j])])

\* the observation holds photo rows as the datastore embedded them
StorageShaped(observation) ==
    /\ "observacion_fotos" \in DictKeys(observation)
    /\ DictGet(observation, "observacion_fotos").items # <<>>

\* the photo lists of the result of a read or a list are the mapped photo
\* rows
C32_Elementwise ==
    (task.name \in {"read", "list"} /\ Returned /\ reply.success = TRUE) =>
        \A pair \in Answered : MappedElementwise(pair[1], pair[2])

\* C32: in the result of get_observation and of get_user_observations the
\* photo list of an observation has one element per photo row stored for
\* it, each the storage-to-external mapping of that row, and the
\* observation carries no photo rows in storage shape.
C32_NestedPhotos ==
    (task.name \in {"read", "list"} /\ Returned /\ reply.success = TRUE) =>
        \A pair \in Answered :
            /\ MappedElementwise(pair[1], pair[2])
            /\ ~StorageShaped(pair[1])

\* an operation of the repository has ended
OperationEnded == task # Idle /\ task.at = "idle"

\* what a result holds of observations and photos
Payload == {"observation", "observations", "photo", "photos"}

\* C38: every observation and photo operation of InsectService ends by
\* returning a result with a boolean success flag, whatever its datastore
\* calls did; when its first datastore call raised the result is the
\* failure with the text of the exception; a failed result has an error
\* message and no observation or photo payload.
C38_ErrorsAsValues ==
    OperationEnded =>
        /\ "success" \in DOMAIN reply
        /\ reply.success \in BOOLEAN
        /\ issued[1].raised => reply = Failure(Exception)
        /\ reply.success = FALSE =>
               /\ "error" \in DOMAIN reply
               /\ reply.error \in {Exception, NotFound, "Photo not found",
                                   "Error creating observation",
                                   "Error adding photo"}
               /\ DOMAIN reply \cap Payload = {}

\* the delete of a photo has ended after its datastore call raised
C38_Witness ==
    /\ OperationEnded
    /\ task.name = "delete_photo"
    /\ issued[1].raised
    /\ reply = Failure(Exception)

\* the photo rows that name an observation the table does not hold
Orphans ==
    {i \in DOMAIN observacion_fotos :
        Eq(observaciones, "id",
           DictGet(observacion_fotos[i], "observacion_id")) = <<>>}

C37_AfterDelete ==
    /\ task.name = "add_photo"
    /\ Returned
    /\ reply.success = FALSE
    /\ ~Refers(photo_db_data(task.photo_data))
    /\ serial > 0
    /\ observacion_fotos = before.observacion_fotos

\* the request names one of latitude and longitude and not the other
OneCoordinate(d) ==
    ("latitude" \in DictKeys(d)) # ("longitude" \in DictKeys(d))

\* the locations of the rows, by identifier
StoredLocations(rows) ==
    {<<DictGet(rows[i], "id"), DictGet(rows[i], "ubicacion")>> :
        i \in DOMAIN rows}

\* an update with one coordinate hands no location to the datastore and
\* leaves the stored locations as they were; an update changes a stored
\* location only when its request names both coordinates
C39_LocationKept ==
    task.name = "update" =>
        /\ OneCoordinate(task.observation_data) =>
               /\ "ubicacion" \notin DictKeys(issued[1].payload)
               /\ {"latitude", "longitude"}
                      \cap DictKeys(issued[1].payload) = {}
               /\ StoredLocations(observaciones) = StoredLocations(before.observaciones)
        /\ StoredLocations(observaciones) # StoredLocations(before.observaciones) =>
               {"latitude", "longitude"}
                   \subseteq DictKeys(task.observation_data)

\* C39: an update whose request names only one of latitude and longitude
\* writes no location and leaves the stored location unchanged; the
\* coordinate is dropped and no error is reported for it: the update of a
\* row the table holds, no datastore call raising, returns success; a
\* stored location changes only when the request names both coordinates.
C39_OneCoordinate ==
    /\ C39_LocationKept
    /\ (/\ task.name = "update"
        /\ Returned
        /\ OneCoordinate(task.observation_data)
        /\ Eq(before.observaciones, "id", task.observation_id) # <<>>
        /\ \A i \in DOMAIN issued : ~issued[i].raised)
           => reply.success = TRUE

\* an update that names a longitude and a description has returned the
\* observation, the description written and the location as it was
C39_Dropped ==
    /\ task.name = "update"
    /\ Returned
    /\ reply.success = TRUE
    /\ DictKeys(task.observation_data) = {"longitude", "description"}
    /\ observaciones # before.observaciones
    /\ StoredLocations(observaciones) = StoredLocations(before.observaciones)

\* the two calls have each built a key
BothBuilt == \A i \in Calls : built[i].op # "none"

\* C33: two calls that build the same key are calls of the same operation
\* with the same parameters after the rounding of the coordinates, for
\* every query and locale the endpoints accept, those holding ':'
\* included; so no call is answered from the entry of a different call.
C33_KeyInjective ==
    BothBuilt /\ built[1].key = built[2].key
        => SameAfterRounding(built[1], built[2])

\* the same, for every pair of calls other than two searches
C33_OtherKeys ==
    (/\ BothBuilt
     /\ built[1].key = built[2].key
     /\ \E i \in Calls : built[i].op # "search_observations")
        => SameAfterRounding(built[1], built[2])

\* the same, for two searches whose query and locale hold no ':'
C33_PlainSearches ==
    (/\ BothBuilt
     /\ built[1].key = built[2].key
     /\ \A i \in Calls : /\ built[i].op = "search_observations"
                         /\ built[i].query \in Queries
                         /\ built[i].locale \in KeyLocales)
        => SameAfterRounding(built[1], built[2])

(***************************************************************************)
(* Further properties of the client, checked under Spec                    *)
(***************************************************************************)
\* the entry under key k after the step is the one request r stores in
\* the step: the body of its successful upstream call, under its own key,
\* stamped with the time of the step
StoredBy(r, k) ==
    /\ StoreStep(r)
    /\ cache_key[r] = k
    /\ result'[r] \in Values
    /\ cache'[k] = Entry(result'[r], now)

\* every entry of the dict is stamped with a time that has come
StampedInPast == \A k \in DOMAIN cache : cache[k].timestamp <= now

\* C34: every entry of the cache of the client was written by the store
\* of a request whose key is the key of the entry, holds the body that
\* request received from its successful upstream call and the time of
\* that store, which is never later than the current time; no other step
\* writes or changes an entry.
C34_CacheIntegrity ==
    /\ []StampedInPast
    /\ [][\A k \in DOMAIN cache' :
              \/ k \in DOMAIN cache /\ cache'[k] = cache[k]
              \/ \E r \in Reqs : StoredBy(r, k)]_vars

\* a request has just stored its body under its key at the current time,
\* next to an entry another request stored earlier under another key
C34_Witness ==
    /\ pc[1] = "closing" /\ stores[1] = 1
    /\ cache_key[1] \in DOMAIN cache
    /\ cache[cache_key[1]] = Entry(result[1], now)
    /\ \E k \in DOMAIN cache :
           /\ k # cache_key[1]
           /\ k = cache_key[2]
           /\ cache[k].timestamp < now
           /\ cache[k].value = ret[2]
    /\ pc[2] = "done" /\ stores[2] = 1

(***************************************************************************)
(* Further properties of the cache, checked under CacheSpec                *)
(***************************************************************************)
\* the last call was a get of an entry that had not expired
LiveRead ==
    /\ last.op = "get"
    /\ last.key \in DOMAIN last.pre
    /\ ~Expired(last.pre, last.at, last.key)

\* C35: a get of a live entry returns its value and leaves the value and
\* the timestamp of the entry, and the rest of the dict, as they were; so
\* after the read the entry is served until the ttl has passed since its
\* set and no longer, however often it is read.
C35_AbsoluteExpiry ==
    LiveRead =>
        /\ last.ret = last.pre[last.key].value
        /\ cache = last.pre
        /\ \A t \in last.at .. (MaxTime + ttl_seconds + 1) :
               get(cache, t, last.key).ret =
                   IF t - last.pre[last.key].timestamp <= ttl_seconds
                   THEN last.pre[last.key].value ELSE None

\* an entry was read when aged exactly the ttl, and is expired now
C35_Witness ==
    /\ LiveRead
    /\ last.at - last.pre[last.key].timestamp = ttl_seconds
    /\ last.ret = last.pre[last.key].value
    /\ now > last.at
    /\ Expired(cache, now, last.key)

\* in the client a hit returns the entry and leaves the dict as it was
C35_ClientHit ==
    [][\A r \in Reqs :
           (LookupStep(r) /\ pc'[r] = "done") => cache' = cache]_vars

(***************************************************************************)
(* ClearSpec: the clear endpoint while upstream calls are in flight        *)
(*                                                                         *)
(* The requests of Spec, with a clear that also records in "cleared" the   *)
(* requests whose upstream call is open when it runs.  The clock stands    *)
(* still: neither the clear nor the store of a response looks at the age   *)
(* of an entry.                                                            *)
(***************************************************************************)
\* routers/cache.py clear_cache, recording the requests in flight
clear_cache_in_flight ==
    /\ cache # EmptyCache
    /\ cache' = clear(cache)
    /\ intact' = IntactAfter(clear(cache), 0)
    /\ cleared' = [r \in Reqs |-> cleared[r] \/ pc[r] = "awaiting"]
    /\ UNCHANGED <<now, last, pc, op, cache_key, result, ret,
                   calls, stores>>
    /\ UNCHANGED others

ClearNext ==
    \/ \E r \in Reqs, q \in Queries, l \in Locales :
           search_observations(r, q, l, 10, 1)
    \/ \E r \in Reqs, i \in TaxonIds, l \in Locales :
           get_species_info(r, i, l)
    \/ \E r \in Reqs, la \in Lats, lo \in Lngs, l \in Locales :
           get_observations_by_location(r, la, lo, l, 50, 10, 1)
    \/ \E r \in Reqs, body \in Values : Respond(r, body)
    \/ \E r \in Reqs : Fail(r)
    \/ \E r \in Reqs : Cancel(r)
    \/ \E r \in Reqs : Return(r)
    \/ \E r \in Reqs : Finish(r)
    \/ clear_cache_in_flight

ClearSpec == Init /\ [][ClearNext]_vars

\* the dict is emptied in this step, and not by the lookup of a request
\* that evicts the last entry: the step of the clear endpoint
EmptiedStep ==
    /\ cache # EmptyCache
    /\ cache' = EmptyCache
    /\ \A r \in Reqs : ~LookupStep(r)

\* C36: clear_cache removes the entries the dict holds when it runs and
\* leaves every request in flight as it was; a request that missed before
\* the clear and receives its response after it stores the body under its
\* key as any other does, so the dict can then hold an entry that comes
\* from an upstream call issued before the clear.
C36_ClearInFlight ==
    /\ [][EmptiedStep =>
              /\ pc' = pc /\ op' = op /\ cache_key' = cache_key
              /\ result' = result /\ ret' = ret
              /\ calls' = calls /\ stores' = stores
              /\ \A r \in Reqs :
                     cleared'[r] = (cleared[r] \/ pc[r] = "awaiting")]_vars
    /\ [][\A r \in Reqs :
              (pc[r] = "awaiting" /\ cleared[r] /\ pc'[r] = "closing") =>
                  /\ result'[r] \in Values
                  /\ cache_key[r] \in DOMAIN cache'
                  /\ cache'[cache_key[r]] = Entry(result'[r], now)
                  /\ stores'[r] = stores[r] + 1]_vars

\* the dict was emptied while request 1 awaited its only upstream call;
\* the response has come since, and the dict holds its body and nothing
\* else
C36_Witness ==
    /\ pc[1] = "closing"
    /\ cleared[1]
    /\ calls[1] = 1 /\ stores[1] = 1
    /\ DOMAIN cache = {cache_key[1]}
    /\ cache[cache_key[1]] = Entry(result[1], now)

====
